---- MODULE Spec2Model ----
(***************************************************************************)
(* A model of the csv package (github.com/beta/csv): the dialect rule and  *)
(* its settings, the Generator (Write / WriteAll / Finish) and the Scanner *)
(* (NewScanner / Setting / Scan / ScanAll).                                *)
(*                                                                         *)
(* A rune is a one-character string, a Go string is a sequence of runes.   *)
(* The document encoding is UTF-8 and every rune of the model is valid, so *)
(* the encoder and the decoder copy the runes they are given.              *)
(***************************************************************************)
EXTENDS Integers, Sequences, FiniteSets, TLC

(***************************************************************************)
(* Runes.                                                                  *)
(***************************************************************************)
noRune == "NUL"
DQ == "\""
SQ == "'"
LF == "\n"

\* The runes of Scanner.isSpace: tab, vertical tab, form feed, space, NEL, NBSP.
SpaceRunes == {"\t", "VT", "\f", " ", "NEL", "NBSP"}

(***************************************************************************)
(* Bounds of the model.                                                    *)
(***************************************************************************)
\* Rows handed to a Generator: at most MaxLen runes and boundaries between
\* fields and records, all rows together.
MaxLen == 3
\* Settings passed to one constructor or one Setting call.
MaxSettings == 2
\* Runes of a document handed directly to a Scanner.
MaxInput == 3

(***************************************************************************)
(* strings helpers used by the package.                                    *)
(***************************************************************************)
RECURSIVE ContainsAny(_, _)
ContainsAny(str, chars) ==
    IF str = <<>> THEN FALSE
    ELSE Head(str) \in chars \/ ContainsAny(Tail(str), chars)

ContainsRune(str, r) == \E i \in 1..Len(str) : str[i] = r

RECURSIVE Replace(_, _, _)
Replace(str, old, new) ==
    IF str = <<>> THEN <<>>
    ELSE (IF Head(str) = old THEN new ELSE <<Head(str)>>) \o Replace(Tail(str), old, new)

RECURSIVE TrimRightFunc(_, _)
TrimRightFunc(str, set) ==
    IF str # <<>> /\ str[Len(str)] \in set
    THEN TrimRightFunc(SubSeq(str, 1, Len(str) - 1), set)
    ELSE str

(***************************************************************************)
(* The rule and the settings.                                              *)
(***************************************************************************)
defaultOmitEmptyLine == TRUE
defaultAllowEndingLineBreakInLastRecord == TRUE
rfc4180OmitEmptyLine == FALSE
rfc4180AllowEndingLineBreakInLastRecord == TRUE

\* The default rule with ';' as its comment rune.
defaultRuleWithComment ==
    [ separator |-> ",",
      prefix |-> noRune,
      suffix |-> noRune,
      allowSingleQuote |-> TRUE,
      allowEmptyField |-> TRUE,
      omitLeadingSpace |-> TRUE,
      omitTrailingSpace |-> TRUE,
      comment |-> ";",
      omitEmptyLine |-> defaultOmitEmptyLine,
      allowEndingLineBreakInLastRecord |-> defaultAllowEndingLineBreakInLastRecord ]

defaultRule ==
    [ separator |-> ",",
      prefix |-> noRune,
      suffix |-> noRune,
      allowSingleQuote |-> TRUE,
      allowEmptyField |-> TRUE,
      omitLeadingSpace |-> TRUE,
      omitTrailingSpace |-> TRUE,
      comment |-> noRune,
      omitEmptyLine |-> defaultOmitEmptyLine,
      allowEndingLineBreakInLastRecord |-> defaultAllowEndingLineBreakInLastRecord ]

\* A Setting is a function on the rule; the model names it and its argument.
Separator(sep) == [name |-> "Separator", rune |-> sep, on |-> FALSE]
Prefix(prefix) == [name |-> "Prefix", rune |-> prefix, on |-> FALSE]
Suffix(suffix) == [name |-> "Suffix", rune |-> suffix, on |-> FALSE]
Comment(comment) == [name |-> "Comment", rune |-> comment, on |-> FALSE]
AllowSingleQuote(v) == [name |-> "AllowSingleQuote", rune |-> noRune, on |-> v]
AllowEmptyField(v) == [name |-> "AllowEmptyField", rune |-> noRune, on |-> v]
OmitLeadingSpace(v) == [name |-> "OmitLeadingSpace", rune |-> noRune, on |-> v]
OmitTrailingSpace(v) == [name |-> "OmitTrailingSpace", rune |-> noRune, on |-> v]
OmitEmptyLine(v) == [name |-> "OmitEmptyLine", rune |-> noRune, on |-> v]
AllowEndingLineBreakInLastRecord(v) ==
    [name |-> "AllowEndingLineBreakInLastRecord", rune |-> noRune, on |-> v]
RFC4180 == [name |-> "RFC4180", rune |-> noRune, on |-> FALSE]

ApplyRFC4180(r) ==
    [r EXCEPT !.separator = ",",
              !.prefix = noRune,
              !.suffix = noRune,
              !.allowSingleQuote = FALSE,
              !.allowEmptyField = FALSE,
              !.omitLeadingSpace = FALSE,
              !.omitTrailingSpace = FALSE,
              !.comment = noRune,
              !.omitEmptyLine = rfc4180OmitEmptyLine,
              !.allowEndingLineBreakInLastRecord = rfc4180AllowEndingLineBreakInLastRecord]

\* setting(&rule): the rule after one setting has run on it.
ApplySetting(setting, r) ==
    CASE setting.name = "Separator" -> [r EXCEPT !.separator = setting.rune]
      [] setting.name = "Prefix" -> [r EXCEPT !.prefix = setting.rune]
      [] setting.name = "Suffix" -> [r EXCEPT !.suffix = setting.rune]
      [] setting.name = "Comment" -> [r EXCEPT !.comment = setting.rune]
      [] setting.name = "AllowSingleQuote" -> [r EXCEPT !.allowSingleQuote = setting.on]
      [] setting.name = "AllowEmptyField" -> [r EXCEPT !.allowEmptyField = setting.on]
      [] setting.name = "OmitLeadingSpace" -> [r EXCEPT !.omitLeadingSpace = setting.on]
      [] setting.name = "OmitTrailingSpace" -> [r EXCEPT !.omitTrailingSpace = setting.on]
      [] setting.name = "OmitEmptyLine" -> [r EXCEPT !.omitEmptyLine = setting.on]
      [] setting.name = "AllowEndingLineBreakInLastRecord" ->
            [r EXCEPT !.allowEndingLineBreakInLastRecord = setting.on]
      [] setting.name = "RFC4180" -> ApplyRFC4180(r)

\* The settings run from the last to the first.
RECURSIVE ApplySettingsFromLast(_, _)
ApplySettingsFromLast(settings, r) ==
    IF settings = <<>> THEN r
    ELSE ApplySetting(Head(settings), ApplySettingsFromLast(Tail(settings), r))

\* for _, setting := range settings { setting(&rule) }
RECURSIVE ApplySettings(_, _)
ApplySettings(settings, r) ==
    IF settings = <<>> THEN r
    ELSE ApplySettings(Tail(settings), ApplySetting(Head(settings), r))

(***************************************************************************)
(* Errors.  An error is its message; NoErr is Go's nil error.              *)
(***************************************************************************)
NoErr == "nil"
EOF == "EOF"
ErrFinished == "csv: Generator has been finished"

(***************************************************************************)
(* Bind(x, F) is F(x) with x computed once, before F is: the value a Go    *)
(* statement assigns to a variable the following statements read.          *)
(***************************************************************************)
Bind(x, F(_)) == CHOOSE r \in {F(v) : v \in {x}} : TRUE

(***************************************************************************)
(* The Generator.  w is what the bufio.Writer holds (Write never fills it  *)
(* up to a flush that leaves it empty: a non-empty write always leaves at  *)
(* least one byte buffered), buf is the bytes.Buffer behind it.            *)
(***************************************************************************)
NewGenerator(settings) ==
    [ rule |-> ApplySettings(settings, defaultRule),
      w |-> <<>>,
      buf |-> <<>>,
      finished |-> FALSE ]

writeSeparator(g) == [g EXCEPT !.w = @ \o <<g.rule.separator>>]

\* writeField with the separator left out of the quoting test.
writeFieldNoSeparatorTest(g, field) ==
    LET prefix == IF g.rule.prefix # noRune THEN <<g.rule.prefix>> ELSE <<>>
        body == IF ContainsAny(field, {DQ, LF})
                THEN <<DQ>> \o Replace(field, DQ, <<DQ, DQ>>) \o <<DQ>>
                ELSE field
        suffix == IF g.rule.suffix # noRune THEN <<g.rule.suffix>> ELSE <<>>
    IN  [g EXCEPT !.w = @ \o prefix \o body \o suffix]

writeField(g, field) ==
    LET prefix == IF g.rule.prefix # noRune THEN <<g.rule.prefix>> ELSE <<>>
        body == IF ContainsAny(field, {DQ, LF}) \/ ContainsRune(field, g.rule.separator)
                THEN <<DQ>> \o Replace(field, DQ, <<DQ, DQ>>) \o <<DQ>>
                ELSE field
        suffix == IF g.rule.suffix # noRune THEN <<g.rule.suffix>> ELSE <<>>
    IN  [g EXCEPT !.w = @ \o prefix \o body \o suffix]

\* The loop of writeRecord with the separator written after every field.
RECURSIVE writeFieldsSeparatorAfterEach(_, _, _)
writeFieldsSeparatorAfterEach(g, record, i) ==
    IF i > Len(record) THEN g
    ELSE Bind(writeField(g, record[i]), LAMBDA g1 :
         Bind(writeSeparator(g1), LAMBDA g2 :
         writeFieldsSeparatorAfterEach(g2, record, i + 1)))

\* The loop of writeRecord from field i on.
RECURSIVE writeFields(_, _, _)
writeFields(g, record, i) ==
    IF i > Len(record) THEN g
    ELSE Bind(writeField(g, record[i]), LAMBDA g1 :
         Bind(IF i < Len(record) THEN writeSeparator(g1) ELSE g1, LAMBDA g2 :
         writeFields(g2, record, i + 1)))

writeRecord(g, record) ==
    Bind(IF Len(g.w) > 0 THEN [g EXCEPT !.w = @ \o <<LF>>] ELSE g, LAMBDA g1 :
    writeFields(g1, record, 1))

\* Write without the test of finished.
WriteUnsealed(g, record) == [g |-> writeRecord(g, record), err |-> NoErr]

Write(g, record) ==
    IF g.finished
    THEN [g |-> g, err |-> ErrFinished]
    ELSE [g |-> writeRecord(g, record), err |-> NoErr]

\* The loop of WriteAll from record i on.
RECURSIVE writeRecords(_, _, _)
writeRecords(g, records, i) ==
    IF i > Len(records) THEN g
    ELSE Bind(writeRecord(g, records[i]), LAMBDA g1 : writeRecords(g1, records, i + 1))

\* WriteAll that writes the first record only.
WriteAllFirstOnly(g, records) ==
    IF g.finished
    THEN [g |-> g, err |-> ErrFinished]
    ELSE [g |-> IF records = <<>> THEN g ELSE writeRecord(g, records[1]), err |-> NoErr]

WriteAll(g, records) ==
    IF g.finished
    THEN [g |-> g, err |-> ErrFinished]
    ELSE [g |-> writeRecords(g, records, 1), err |-> NoErr]

\* Flush moves w into buf; ioutil.ReadAll returns what buf holds and drains it.
Finish(g) ==
    [ g |-> [g EXCEPT !.finished = TRUE, !.w = <<>>, !.buf = <<>>],
      data |-> g.buf \o g.w,
      err |-> NoErr ]

(***************************************************************************)
(* The Scanner.  f is what the reader has not handed out yet; pos counts   *)
(* from 0 as in the source, so the current rune is line[pos + 1].  The     *)
(* scanning functions return the scanner they leave behind, the value they *)
(* return and their error.                                                 *)
(***************************************************************************)
ErrEmptyLine == "unexpected empty line"
ErrNoPrefix == "prefix not found"
ErrNoSuffix == "suffix not found"
ErrNoTrailingQuote == "trailing quote not found"
ErrEmptyField == "unexpected empty field, expect text"
ErrExpectText == "unexpected character, expect text"
ErrExpectSeparator == "unexpected character, expect separator"
ErrExpectQuote == "unexpected character, expect quote"

Ok(s, val) == [s |-> s, val |-> val, err |-> NoErr]
Fail(s, err) == [s |-> s, val |-> <<>>, err |-> err]

isQuote(s, c) == c = DQ \/ (s.rule.allowSingleQuote /\ c = SQ)

isLineEnd(c) == c = LF

isComma(s, c) == c = s.rule.separator

isSpace(c) == c \in SpaceRunes

\* Position of the first rune r of str from position i on, 0 when there is none.
RECURSIVE IndexRune(_, _, _)
IndexRune(str, r, i) ==
    IF i > Len(str) THEN 0
    ELSE IF str[i] = r THEN i
    ELSE IndexRune(str, r, i + 1)

\* bufio.Reader.ReadString('\n'): up to and including the next line feed, or the
\* rest of the input with io.EOF.
readNextLine(s) ==
    Bind(IndexRune(s.f, LF, 1), LAMBDA i :
    IF i > 0
    THEN [s EXCEPT !.line = SubSeq(s.f, 1, i), !.f = SubSeq(s.f, i + 1, Len(s.f))]
    ELSE [s EXCEPT !.line = s.f, !.f = <<>>, !.lastLine = TRUE])

\* shouldOmitLine with every empty line omitted, whatever the rule.
shouldOmitLineAlways(s, line) ==
    \/ line = <<LF>>
    \/ s.rule.comment # noRune /\ Len(line) > 0 /\ line[1] = s.rule.comment

shouldOmitLine(s, line) ==
    \/ line = <<LF>> /\ s.rule.omitEmptyLine
    \/ s.rule.comment # noRune /\ Len(line) > 0 /\ line[1] = s.rule.comment

\* The loop of nextLine that omits comments and empty lines.
RECURSIVE omitLines(_)
omitLines(s) ==
    IF ~s.lastLine /\ shouldOmitLine(s, s.line)
    THEN Bind(readNextLine([s EXCEPT !.lineNo = @ + 1]), LAMBDA s1 : omitLines(s1))
    ELSE s

\* nextLine that takes the empty last line for an error under every rule.
nextLineRejectingEnd(s) ==
    Bind(readNextLine([s EXCEPT !.lineNo = @ + 1]), LAMBDA s1 :
    Bind([omitLines(s1) EXCEPT !.pos = 0], LAMBDA s2 :
    IF Len(s2.line) <= 0 /\ s2.lastLine
    THEN [ s |-> [s2 EXCEPT !.eof = TRUE, !.c = noRune], err |-> ErrEmptyLine ]
    ELSE [ s |-> [s2 EXCEPT !.c = s2.line[1]], err |-> NoErr ]))

\* nextLine that keeps the last rune at the end of the input.
nextLineKeepingRune(s) ==
    Bind(readNextLine([s EXCEPT !.lineNo = @ + 1]), LAMBDA s1 :
    Bind([omitLines(s1) EXCEPT !.pos = 0], LAMBDA s2 :
    IF Len(s2.line) <= 0 /\ s2.lastLine
    THEN [ s |-> [s2 EXCEPT !.eof = TRUE],
           err |-> IF ~s2.rule.allowEndingLineBreakInLastRecord
                   THEN ErrEmptyLine ELSE NoErr ]
    ELSE [ s |-> [s2 EXCEPT !.c = s2.line[1]], err |-> NoErr ]))

nextLine(s) ==
    Bind(readNextLine([s EXCEPT !.lineNo = @ + 1]), LAMBDA s1 :
    Bind([omitLines(s1) EXCEPT !.pos = 0], LAMBDA s2 :
    IF Len(s2.line) <= 0 /\ s2.lastLine
    THEN [ s |-> [s2 EXCEPT !.eof = TRUE, !.c = noRune],
           err |-> IF ~s2.rule.allowEndingLineBreakInLastRecord
                   THEN ErrEmptyLine ELSE NoErr ]
    ELSE [ s |-> [s2 EXCEPT !.c = s2.line[1]], err |-> NoErr ]))

\* next that stays where it is inside a line.
nextStaying(s) ==
    IF s.pos >= Len(s.line) - 1
    THEN nextLine(s)
    ELSE [ s |-> s, err |-> NoErr ]

next(s) ==
    IF s.pos >= Len(s.line) - 1
    THEN nextLine(s)
    ELSE [ s |-> [s EXCEPT !.pos = @ + 1, !.c = s.line[s.pos + 2]], err |-> NoErr ]

\* err := s.next(): the value val is returned when it succeeds.
Advance(s, val) ==
    Bind(next(s), LAMBDA n :
    IF n.err # NoErr THEN Fail(n.s, n.err) ELSE Ok(n.s, val))

RECURSIVE scanSPACELoop(_, _)
scanSPACELoop(s, spaces) ==
    IF ~s.eof /\ isSpace(s.c)
    THEN Bind(next(s), LAMBDA n :
         IF n.err # NoErr THEN Fail(n.s, n.err)
         ELSE scanSPACELoop(n.s, spaces \o <<s.c>>))
    ELSE Ok(s, spaces)

scanSPACE(s) == scanSPACELoop(s, <<>>)

scanQUOTE(s) ==
    IF ~isQuote(s, s.c) THEN Fail(s, ErrExpectQuote) ELSE Advance(s, s.c)

\* scanCOMMA that takes any rune for the separator.
scanCOMMAAnyRune(s) == Advance(s, s.c)

scanCOMMA(s) ==
    IF s.c # s.rule.separator THEN Fail(s, ErrExpectSeparator) ELSE Advance(s, s.c)

\* The loop of scanEscaped.
RECURSIVE scanEscapedLoop(_, _, _, _)
scanEscapedLoop(s, leadingQuote, escaped, foundFirstQuote) ==
    IF s.eof
    THEN IF foundFirstQuote THEN Ok(s, escaped) ELSE Fail(s, ErrNoTrailingQuote)
    ELSE IF isQuote(s, s.c)
    THEN IF s.c # leadingQuote
         THEN IF foundFirstQuote
              THEN Ok(s, escaped)
              ELSE Bind(next(s), LAMBDA n :
                   IF n.err # NoErr THEN Fail(n.s, n.err)
                   ELSE scanEscapedLoop(n.s, leadingQuote, escaped \o <<s.c>>, FALSE))
         ELSE IF ~foundFirstQuote
              THEN Bind(next(s), LAMBDA n :
                   IF n.err # NoErr THEN Fail(n.s, n.err)
                   ELSE scanEscapedLoop(n.s, leadingQuote, escaped, TRUE))
              ELSE Bind(next(s), LAMBDA n :
                   IF n.err # NoErr THEN Fail(n.s, n.err)
                   ELSE scanEscapedLoop(n.s, leadingQuote, escaped \o <<s.c>>, FALSE))
    ELSE IF foundFirstQuote
         THEN Ok(s, escaped)
         ELSE Bind(next(s), LAMBDA n :
              IF n.err # NoErr THEN Fail(n.s, n.err)
              ELSE scanEscapedLoop(n.s, leadingQuote, escaped \o <<s.c>>, FALSE))

\* scanEscaped that takes the double quote for the leading quote of every field.
scanEscapedAsDoubleQuoted(s) ==
    Bind(scanQUOTE(s), LAMBDA q :
    IF q.err # NoErr THEN Fail(q.s, q.err)
    ELSE scanEscapedLoop(q.s, DQ, <<>>, FALSE))

\* scanEscaped that takes the end of the document for the trailing quote.
scanEscapedClosingAtEnd(s) ==
    Bind(scanQUOTE(s), LAMBDA q :
    IF q.err # NoErr THEN Fail(q.s, q.err)
    ELSE Bind(scanEscapedLoop(q.s, q.val, <<>>, FALSE), LAMBDA r :
         IF r.err = ErrNoTrailingQuote THEN Ok(r.s, <<>>) ELSE r))

scanEscaped(s) ==
    Bind(scanQUOTE(s), LAMBDA q :
    IF q.err # NoErr THEN Fail(q.s, q.err)
    ELSE scanEscapedLoop(q.s, q.val, <<>>, FALSE))

\* The test of the suffix after a field body, in scanField and scanNonEscaped.
scanSuffix(s, field) ==
    IF s.rule.suffix # noRune
    THEN IF s.c # s.rule.suffix THEN Fail(s, ErrNoSuffix) ELSE Advance(s, field)
    ELSE Ok(s, field)

\* The loop of scanNonEscaped.
RECURSIVE scanNonEscapedLoop(_, _)
scanNonEscapedLoop(s, nonEscaped) ==
    IF ~s.eof /\ ~isLineEnd(s.c) /\ ~isComma(s, s.c)
       /\ (s.rule.suffix = noRune \/ s.c # s.rule.suffix)
    THEN Bind(next(s), LAMBDA n :
         IF n.err # NoErr THEN Fail(n.s, n.err)
         ELSE scanNonEscapedLoop(n.s, nonEscaped \o <<s.c>>))
    ELSE Ok(s, nonEscaped)

\* scanNonEscaped without the test for an empty field.
scanNonEscapedAnyField(s) ==
    IF isQuote(s, s.c)
    THEN Fail(s, ErrExpectText)
    ELSE Bind(scanNonEscapedLoop(s, <<>>), LAMBDA r :
         IF r.err # NoErr THEN r ELSE scanSuffix(r.s, r.val))

scanNonEscaped(s) ==
    IF (isComma(s, s.c) \/ isLineEnd(s.c) \/ s.eof) /\ ~s.rule.allowEmptyField
    THEN Fail(s, ErrEmptyField)
    ELSE IF isQuote(s, s.c)
    THEN Fail(s, ErrExpectText)
    ELSE Bind(scanNonEscapedLoop(s, <<>>), LAMBDA r :
         IF r.err # NoErr THEN r ELSE scanSuffix(r.s, r.val))

\* scanField from the test for a quote on, up to the trimming.
scanFieldBody(s) ==
    IF isQuote(s, s.c)
    THEN Bind(scanEscaped(s), LAMBDA r :
         IF r.err # NoErr THEN r ELSE scanSuffix(r.s, r.val))
    ELSE scanNonEscaped(s)

\* scanField that goes on to the field when the prefix is not there.
scanFieldOptionalPrefix(s) ==
    IF s.rule.prefix # noRune /\ s.c = s.rule.prefix
    THEN Bind(next(s), LAMBDA n :
         IF n.err # NoErr THEN Fail(n.s, n.err) ELSE scanFieldBody(n.s))
    ELSE scanFieldBody(s)

\* scanField from the test for the prefix on, up to the trimming.
scanFieldPrefix(s) ==
    IF s.rule.prefix # noRune
    THEN IF s.c = s.rule.prefix
         THEN Bind(next(s), LAMBDA n :
              IF n.err # NoErr THEN Fail(n.s, n.err) ELSE scanFieldBody(n.s))
         ELSE Fail(s, ErrNoPrefix)
    ELSE scanFieldBody(s)

\* scanField that skips the trailing spaces but leaves the field untrimmed.
scanFieldUntrimmed(s) ==
    Bind(IF s.rule.omitLeadingSpace THEN scanSPACE(s) ELSE Ok(s, <<>>), LAMBDA lead :
    IF lead.err # NoErr THEN Fail(lead.s, lead.err)
    ELSE Bind(scanFieldPrefix(lead.s), LAMBDA r :
         IF r.err # NoErr THEN r
         ELSE IF r.s.rule.omitTrailingSpace
         THEN Bind(scanSPACE(r.s), LAMBDA trail :
              IF trail.err # NoErr THEN Fail(trail.s, trail.err)
              ELSE Ok(trail.s, r.val))
         ELSE r))

scanField(s) ==
    Bind(IF s.rule.omitLeadingSpace THEN scanSPACE(s) ELSE Ok(s, <<>>), LAMBDA lead :
    IF lead.err # NoErr THEN Fail(lead.s, lead.err)
    ELSE Bind(scanFieldPrefix(lead.s), LAMBDA r :
         IF r.err # NoErr THEN r
         ELSE IF r.s.rule.omitTrailingSpace
         THEN Bind(scanSPACE(r.s), LAMBDA trail :
              IF trail.err # NoErr THEN Fail(trail.s, trail.err)
              ELSE Ok(trail.s, TrimRightFunc(r.val, SpaceRunes)))
         ELSE r))

\* The loop of scanRecord.
RECURSIVE scanRecordLoop(_, _)
scanRecordLoop(s, fields) ==
    IF ~s.eof /\ ~isLineEnd(s.c)
    THEN Bind(scanCOMMA(s), LAMBDA sep :
         IF sep.err # NoErr THEN Fail(sep.s, sep.err)
         ELSE Bind(scanField(sep.s), LAMBDA r :
              IF r.err # NoErr THEN r
              ELSE scanRecordLoop(r.s, Append(fields, r.val))))
    ELSE Ok(s, fields)

scanRecord(s) ==
    Bind(scanField(s), LAMBDA first :
    IF first.err # NoErr THEN first
    ELSE Bind(scanRecordLoop(first.s, <<first.val>>), LAMBDA r :
         IF r.err # NoErr THEN r
         ELSE Bind(nextLine(r.s), LAMBDA n :
              IF n.err # NoErr THEN Fail(n.s, n.err) ELSE Ok(n.s, r.val))))

\* What the callers of the package see of an error: nil, io.EOF, or a message,
\* which Scanner.error extends with the scanner's line number and position.
Nil == [msg |-> NoErr, lineNo |-> 0, pos |-> 0]
IoEOF == [msg |-> EOF, lineNo |-> 0, pos |-> 0]
PlainError(msg) == [msg |-> msg, lineNo |-> 0, pos |-> 0]
ScannerError(s, err) == [msg |-> err, lineNo |-> s.lineNo, pos |-> s.pos]

\* The zero Scanner with its rule and reader set, before the first next().
newScanner(data, settings) ==
    [ f |-> data,
      rule |-> ApplySettings(settings, defaultRule),
      line |-> <<>>,
      lineNo |-> 0,
      pos |-> 0,
      c |-> noRune,
      eof |-> FALSE,
      lastLine |-> FALSE ]

\* NewScanner returns (nil, err) when the first next() fails: ok tells whether a
\* Scanner was returned.
NewScanner(data, settings) ==
    Bind(newScanner(data, settings), LAMBDA s0 :
    Bind(next(s0), LAMBDA n :
    IF n.err # NoErr
    THEN [s |-> n.s, ok |-> FALSE, err |-> PlainError(n.err)]
    ELSE [s |-> n.s, ok |-> TRUE, err |-> Nil]))

Setting(s, settings) == [s EXCEPT !.rule = ApplySettings(settings, s.rule)]

\* Scan that leaves the Scanner with the default rule.
ScanToDefaultRule(s) ==
    [s |-> [s EXCEPT !.rule = defaultRule], rows |-> <<>>, isNil |-> TRUE, err |-> IoEOF]

\* Scan that returns io.EOF alone when the record it scanned was the last.
ScanDroppingLastRow(s) ==
    IF s.eof
    THEN [s |-> s, rows |-> <<>>, isNil |-> TRUE, err |-> IoEOF]
    ELSE Bind(scanRecord(s), LAMBDA r :
         IF r.err # NoErr
         THEN [s |-> r.s, rows |-> <<>>, isNil |-> TRUE, err |-> ScannerError(r.s, r.err)]
         ELSE IF r.s.eof
         THEN [s |-> r.s, rows |-> <<>>, isNil |-> TRUE, err |-> IoEOF]
         ELSE [s |-> r.s, rows |-> <<r.val>>, isNil |-> FALSE, err |-> Nil])

\* Scan without the test of eof before the record is scanned.
ScanPastEnd(s) ==
    Bind(scanRecord(s), LAMBDA r :
    IF r.err # NoErr
    THEN [s |-> r.s, rows |-> <<>>, isNil |-> TRUE, err |-> ScannerError(r.s, r.err)]
    ELSE [ s |-> r.s, rows |-> <<r.val>>, isNil |-> FALSE,
           err |-> IF r.s.eof THEN IoEOF ELSE Nil ])

\* rows holds the returned row, if one is returned; isNil tells a nil row.
Scan(s) ==
    IF s.eof
    THEN [s |-> s, rows |-> <<>>, isNil |-> TRUE, err |-> IoEOF]
    ELSE Bind(scanRecord(s), LAMBDA r :
         IF r.err # NoErr
         THEN [s |-> r.s, rows |-> <<>>, isNil |-> TRUE, err |-> ScannerError(r.s, r.err)]
         ELSE [ s |-> r.s, rows |-> <<r.val>>, isNil |-> FALSE,
                err |-> IF r.s.eof THEN IoEOF ELSE Nil ])

\* The loop of ScanAll returning the rows scanned before the error.
RECURSIVE scanAllLoopKeepingRows(_, _)
scanAllLoopKeepingRows(s, rows) ==
    IF ~s.eof
    THEN Bind(scanRecord(s), LAMBDA r :
         IF r.err # NoErr
         THEN [s |-> r.s, rows |-> rows, isNil |-> FALSE, err |-> ScannerError(r.s, r.err)]
         ELSE scanAllLoopKeepingRows(r.s, Append(rows, r.val)))
    ELSE [s |-> s, rows |-> rows, isNil |-> FALSE, err |-> Nil]

\* The loop of ScanAll.
RECURSIVE scanAllLoop(_, _)
scanAllLoop(s, rows) ==
    IF ~s.eof
    THEN Bind(scanRecord(s), LAMBDA r :
         IF r.err # NoErr
         THEN [s |-> r.s, rows |-> <<>>, isNil |-> TRUE, err |-> ScannerError(r.s, r.err)]
         ELSE scanAllLoop(r.s, Append(rows, r.val)))
    ELSE [s |-> s, rows |-> rows, isNil |-> FALSE, err |-> Nil]

ScanAll(s) == scanAllLoop(s, <<>>)

(***************************************************************************)
(* The Scanner that reads a header, of README.md: its Scan scans the whole *)
(* document and returns the header, the rows and an error.  Its rule has   *)
(* allowComment and header, and no prefix, suffix and line settings.  nil  *)
(* for the header or the rows is <<>>: a header that was scanned has a     *)
(* name, and the rows are made when the first row is appended.             *)
(***************************************************************************)
H_defaultRule ==
    [ separator |-> ",",
      allowSingleQuote |-> TRUE,
      allowEmptyField |-> TRUE,
      omitLeadingSpace |-> TRUE,
      omitTrailingSpace |-> TRUE,
      allowComment |-> TRUE,
      comment |-> ";",
      header |-> FALSE,
      validators |-> <<>> ]

AllowComment(v) == [name |-> "AllowComment", rune |-> noRune, on |-> v]
Header(v) == [name |-> "Header", rune |-> noRune, on |-> v]

\* Validator(name, validator): key is the name, fn names the function.  The
\* map of the rule is a function from the names to the functions' names;
\* the nil map and the empty one are <<>>.
Validator(key, fn) ==
    [name |-> "Validator", rune |-> noRune, on |-> FALSE, key |-> key, fn |-> fn]

H_ApplySetting(setting, r) ==
    CASE setting.name = "Separator" -> [r EXCEPT !.separator = setting.rune]
      [] setting.name = "Comment" -> [r EXCEPT !.comment = setting.rune]
      [] setting.name = "AllowSingleQuote" -> [r EXCEPT !.allowSingleQuote = setting.on]
      [] setting.name = "AllowEmptyField" -> [r EXCEPT !.allowEmptyField = setting.on]
      [] setting.name = "OmitLeadingSpace" -> [r EXCEPT !.omitLeadingSpace = setting.on]
      [] setting.name = "OmitTrailingSpace" -> [r EXCEPT !.omitTrailingSpace = setting.on]
      [] setting.name = "AllowComment" -> [r EXCEPT !.allowComment = setting.on]
      [] setting.name = "Header" -> [r EXCEPT !.header = setting.on]
      [] setting.name = "Validator" ->
            [r EXCEPT !.validators =
                [k \in DOMAIN r.validators \cup {setting.key} |->
                    IF k = setting.key THEN setting.fn ELSE r.validators[k]]]
      [] setting.name = "RFC4180" ->
            [r EXCEPT !.allowSingleQuote = FALSE,
                      !.allowEmptyField = FALSE,
                      !.omitLeadingSpace = FALSE,
                      !.omitTrailingSpace = FALSE,
                      !.allowComment = FALSE,
                      !.comment = noRune,
                      !.separator = ","]

RECURSIVE H_ApplySettings(_, _)
H_ApplySettings(settings, r) ==
    IF settings = <<>> THEN r
    ELSE H_ApplySettings(Tail(settings), H_ApplySetting(Head(settings), r))

H_NewScanner(data, settings) ==
    [ f |-> data,
      rule |-> H_ApplySettings(settings, H_defaultRule),
      line |-> <<>>,
      lineNo |-> 0,
      pos |-> 0,
      c |-> noRune,
      eof |-> FALSE,
      lastLine |-> FALSE,
      headerScanned |-> FALSE,
      header |-> <<>>,
      rows |-> <<>> ]

\* At the end of the document eof is set and lineNo, pos and c stay.
H_nextLine(s) ==
    Bind(readNextLine(s), LAMBDA s1 :
    IF Len(s1.line) <= 0
    THEN [ s |-> [s1 EXCEPT !.eof = TRUE], err |-> NoErr ]
    ELSE [ s |-> [s1 EXCEPT !.lineNo = @ + 1, !.pos = 0, !.c = s1.line[1]],
           err |-> NoErr ])

H_next(s) ==
    IF s.pos >= Len(s.line) - 1
    THEN H_nextLine(s)
    ELSE [ s |-> [s EXCEPT !.pos = @ + 1, !.c = s.line[s.pos + 2]], err |-> NoErr ]

H_scanComment(s) == H_nextLine(s)

H_Advance(s, val) ==
    Bind(H_next(s), LAMBDA n :
    IF n.err # NoErr THEN Fail(n.s, n.err) ELSE Ok(n.s, val))

RECURSIVE H_scanSPACELoop(_, _)
H_scanSPACELoop(s, spaces) ==
    IF ~s.eof /\ isSpace(s.c)
    THEN Bind(H_next(s), LAMBDA n :
         IF n.err # NoErr THEN Fail(n.s, n.err)
         ELSE H_scanSPACELoop(n.s, spaces \o <<s.c>>))
    ELSE Ok(s, spaces)

H_scanSPACE(s) == H_scanSPACELoop(s, <<>>)

H_scanQUOTE(s) ==
    IF ~isQuote(s, s.c) THEN Fail(s, ErrExpectQuote) ELSE H_Advance(s, s.c)

H_scanCOMMA(s) ==
    IF s.c # s.rule.separator THEN Fail(s, ErrExpectSeparator) ELSE H_Advance(s, s.c)

RECURSIVE H_scanEscapedLoop(_, _, _, _)
H_scanEscapedLoop(s, leadingQuote, escaped, foundFirstQuote) ==
    IF s.eof
    THEN IF foundFirstQuote THEN Ok(s, escaped) ELSE Fail(s, ErrNoTrailingQuote)
    ELSE IF isQuote(s, s.c)
    THEN IF s.c # leadingQuote
         THEN IF foundFirstQuote
              THEN Ok(s, escaped)
              ELSE Bind(H_next(s), LAMBDA n :
                   IF n.err # NoErr THEN Fail(n.s, n.err)
                   ELSE H_scanEscapedLoop(n.s, leadingQuote, escaped \o <<s.c>>, FALSE))
         ELSE IF ~foundFirstQuote
              THEN Bind(H_next(s), LAMBDA n :
                   IF n.err # NoErr THEN Fail(n.s, n.err)
                   ELSE H_scanEscapedLoop(n.s, leadingQuote, escaped, TRUE))
              ELSE Bind(H_next(s), LAMBDA n :
                   IF n.err # NoErr THEN Fail(n.s, n.err)
                   ELSE H_scanEscapedLoop(n.s, leadingQuote, escaped \o <<s.c>>, FALSE))
    ELSE IF foundFirstQuote
         THEN Ok(s, escaped)
         ELSE Bind(H_next(s), LAMBDA n :
              IF n.err # NoErr THEN Fail(n.s, n.err)
              ELSE H_scanEscapedLoop(n.s, leadingQuote, escaped \o <<s.c>>, FALSE))

H_scanEscaped(s) ==
    Bind(H_scanQUOTE(s), LAMBDA q :
    IF q.err # NoErr THEN Fail(q.s, q.err)
    ELSE H_scanEscapedLoop(q.s, q.val, <<>>, FALSE))

RECURSIVE H_scanNonEscapedLoop(_, _)
H_scanNonEscapedLoop(s, nonEscaped) ==
    IF ~s.eof /\ ~isLineEnd(s.c) /\ ~isComma(s, s.c)
    THEN Bind(H_next(s), LAMBDA n :
         IF n.err # NoErr THEN Fail(n.s, n.err)
         ELSE H_scanNonEscapedLoop(n.s, nonEscaped \o <<s.c>>))
    ELSE Ok(s, nonEscaped)

H_scanNonEscaped(s) ==
    IF (isComma(s, s.c) \/ isLineEnd(s.c) \/ s.eof) /\ ~s.rule.allowEmptyField
    THEN Fail(s, ErrEmptyField)
    ELSE IF isQuote(s, s.c)
    THEN Fail(s, ErrExpectText)
    ELSE H_scanNonEscapedLoop(s, <<>>)

H_scanField(s) ==
    Bind(IF s.rule.omitLeadingSpace THEN H_scanSPACE(s) ELSE Ok(s, <<>>), LAMBDA lead :
    IF lead.err # NoErr THEN Fail(lead.s, lead.err)
    ELSE Bind(IF isQuote(lead.s, lead.s.c)
              THEN H_scanEscaped(lead.s) ELSE H_scanNonEscaped(lead.s), LAMBDA r :
         IF r.err # NoErr THEN r
         ELSE IF r.s.rule.omitTrailingSpace
         THEN Bind(H_scanSPACE(r.s), LAMBDA trail :
              IF trail.err # NoErr THEN Fail(trail.s, trail.err)
              ELSE Ok(trail.s, TrimRightFunc(r.val, SpaceRunes)))
         ELSE r))

H_scanName(s) == H_scanField(s)

\* The loop of scanHeader.
RECURSIVE H_scanHeaderLoop(_, _)
H_scanHeaderLoop(s, header) ==
    IF ~s.eof /\ ~isLineEnd(s.c)
    THEN Bind(H_scanCOMMA(s), LAMBDA sep :
         IF sep.err # NoErr THEN Fail(sep.s, sep.err)
         ELSE Bind(H_scanName(sep.s), LAMBDA r :
              IF r.err # NoErr THEN r
              ELSE H_scanHeaderLoop(r.s, Append(header, r.val))))
    ELSE Ok(s, header)

H_scanHeader(s) ==
    Bind(H_scanName(s), LAMBDA first :
    IF first.err # NoErr THEN first
    ELSE Bind(H_scanHeaderLoop(first.s, <<first.val>>), LAMBDA r :
         IF r.err # NoErr THEN r
         ELSE Bind(H_nextLine(r.s), LAMBDA n :
              IF n.err # NoErr THEN Fail(n.s, n.err) ELSE Ok(n.s, r.val))))

\* The loop of scanRecord.
RECURSIVE H_scanRecordLoop(_, _)
H_scanRecordLoop(s, fields) ==
    IF ~s.eof /\ ~isLineEnd(s.c)
    THEN Bind(H_scanCOMMA(s), LAMBDA sep :
         IF sep.err # NoErr THEN Fail(sep.s, sep.err)
         ELSE Bind(H_scanField(sep.s), LAMBDA r :
              IF r.err # NoErr THEN r
              ELSE H_scanRecordLoop(r.s, Append(fields, r.val))))
    ELSE Ok(s, fields)

H_scanRecord(s) ==
    Bind(H_scanField(s), LAMBDA first :
    IF first.err # NoErr THEN first
    ELSE Bind(H_scanRecordLoop(first.s, <<first.val>>), LAMBDA r :
         IF r.err # NoErr THEN r
         ELSE Bind(H_nextLine(r.s), LAMBDA n :
              IF n.err # NoErr THEN Fail(n.s, n.err) ELSE Ok(n.s, r.val))))

\* fmt.Errorf("line %d, pos %d: %v", s.lineNo, s.pos, err)
H_error(s, err) == [msg |-> err, lineNo |-> s.lineNo, pos |-> s.pos]

\* What Scan returns with an error: header and rows are nil.
H_Failed(s, err) == [s |-> s, header |-> <<>>, rows |-> <<>>, err |-> H_error(s, err)]

\* Scan whose loop takes every record for a row.
RECURSIVE H_scanLoopWithoutHeader(_)
H_scanLoopWithoutHeader(s) ==
    IF ~s.eof
    THEN IF s.rule.allowComment /\ s.c = s.rule.comment
         THEN Bind(H_scanComment(s), LAMBDA n :
              IF n.err # NoErr THEN H_Failed(n.s, n.err) ELSE H_scanLoopWithoutHeader(n.s))
         ELSE Bind(H_scanRecord(s), LAMBDA r :
              IF r.err # NoErr THEN H_Failed(r.s, r.err)
              ELSE H_scanLoopWithoutHeader([r.s EXCEPT !.rows = Append(@, r.val)]))
    ELSE [s |-> s, header |-> s.header, rows |-> s.rows, err |-> Nil]

H_ScanWithoutHeader(s) ==
    Bind(H_next(s), LAMBDA n :
    IF n.err # NoErr THEN H_Failed(n.s, n.err) ELSE H_scanLoopWithoutHeader(n.s))

\* The loop of Scan.
RECURSIVE H_scanLoop(_)
H_scanLoop(s) ==
    IF ~s.eof
    THEN IF s.rule.allowComment /\ s.c = s.rule.comment
         THEN Bind(H_scanComment(s), LAMBDA n :
              IF n.err # NoErr THEN H_Failed(n.s, n.err) ELSE H_scanLoop(n.s))
         ELSE IF ~s.headerScanned /\ s.rule.header
         THEN Bind(H_scanHeader(s), LAMBDA r :
              Bind([r.s EXCEPT !.header = r.val, !.headerScanned = TRUE], LAMBDA s1 :
              IF r.err # NoErr THEN H_Failed(s1, r.err) ELSE H_scanLoop(s1)))
         ELSE Bind(H_scanRecord(s), LAMBDA r :
              IF r.err # NoErr THEN H_Failed(r.s, r.err)
              ELSE H_scanLoop([r.s EXCEPT !.rows = Append(@, r.val)]))
    ELSE [s |-> s, header |-> s.header, rows |-> s.rows, err |-> Nil]

H_Scan(s) ==
    Bind(H_next(s), LAMBDA n :
    IF n.err # NoErr THEN H_Failed(n.s, n.err) ELSE H_scanLoop(n.s))

(***************************************************************************)
(* The unmarshaler.  It scans with the Scanner that reads a header.  A     *)
(* struct is a function from the names of its fields to their values; the  *)
(* tag of a field is modelled after strings.Split: its CSV name, a string  *)
(* of runes as the header names are, and its validator names.  The slice   *)
(* is the sequence of its structs; its capacity is not modelled.           *)
(***************************************************************************)
ErrNoValidator == "csv: cannot find validator"
ErrInvalidValue == "csv: invalid value"
ErrOutOfRange == "csv: value is out of range"
ErrUnsupported == "csv: unsupported Go type"
ErrSyntax == "strconv: invalid syntax"
ErrIndex == "panic: index out of range"

\* An error of the unmarshaler, with what its message names.
UError(msg, args) == [msg |-> msg, args |-> args]

SignedKinds == {"int", "int8", "int16", "int32", "int64"}
UnsignedKinds == {"uint", "uint8", "uint16", "uint32", "uint64"}

\* The bits of an integer kind.
Bits(k) ==
    CASE k \in {"int8", "uint8"} -> 8
      [] k \in {"int16", "uint16"} -> 16
      [] k \in {"int32", "uint32"} -> 32
      [] OTHER -> 64

DigitRunes == <<"0", "1", "2", "3", "4", "5", "6", "7", "8", "9">>

DigitValue(r) == (CHOOSE i \in 1..10 : DigitRunes[i] = r) - 1

\* The number a string of digits stands for.
RECURSIVE Number(_)
Number(digits) ==
    IF digits = <<>> THEN 0
    ELSE 10 * Number(SubSeq(digits, 1, Len(digits) - 1)) + DigitValue(digits[Len(digits)])

\* strconv.ParseInt(value, 10, 64): an optional sign and one digit or more.
\* The strings of the model are too short to leave the range of int64.
ParseInt(str) ==
    LET signed == str # <<>> /\ Head(str) \in {"+", "-"}
        digits == IF signed THEN Tail(str) ELSE str
    IN  IF digits = <<>> \/ \E i \in 1..Len(digits) : ~ContainsRune(DigitRunes, digits[i])
        THEN [val |-> 0, err |-> ErrSyntax]
        ELSE [ val |-> IF signed /\ Head(str) = "-" THEN 0 - Number(digits)
                       ELSE Number(digits),
               err |-> NoErr ]

\* strconv.ParseBool
ParseBool(str) ==
    IF str \in { <<"1">>, <<"t">>, <<"T">>, <<"T", "R", "U", "E">>,
                 <<"t", "r", "u", "e">>, <<"T", "r", "u", "e">> }
    THEN [val |-> TRUE, err |-> NoErr]
    ELSE IF str \in { <<"0">>, <<"f">>, <<"F">>, <<"F", "A", "L", "S", "E">>,
                      <<"f", "a", "l", "s", "e">>, <<"F", "a", "l", "s", "e">> }
    THEN [val |-> FALSE, err |-> NoErr]
    ELSE [val |-> FALSE, err |-> ErrSyntax]

\* reflect.Value.SetInt and SetUint store the low bits of their argument that
\* the kind of the destination holds.  x is the int64 ParseInt returned:
\* uint64(x) and x have the same low bits.
SetInt(k, x) ==
    IF Bits(k) = 64 THEN x
    ELSE ((x + 2^(Bits(k) - 1)) % 2^Bits(k)) - 2^(Bits(k) - 1)

SetUint(k, x) == x % 2^Bits(k)

\* A call of unmarshalInt leaves the value of the destination and an error.
\* The second switch tests the unsigned kinds against reflect.Int8, Int16
\* and Int32, as the source does.
unmarshalInt(k, old, value) ==
    Bind(ParseInt(value), LAMBDA p :
    IF p.err # NoErr THEN [val |-> old, err |-> UError(p.err, <<value>>)]
    ELSE LET intVal == p.val
             outOfRange ==
                 IF k \in SignedKinds
                 THEN CASE k \in {"int", "int64"} -> FALSE
                        [] k = "int8" -> intVal < -128 \/ intVal > 127
                        [] k = "int16" -> intVal < -32768 \/ intVal > 32767
                        [] k = "int32" -> intVal < -2147483647 - 1 \/ intVal > 2147483647
                 ELSE IF k \in UnsignedKinds
                 THEN CASE k \in {"uint", "uint64"} -> FALSE
                        [] k = "int8" -> intVal < 0 \/ intVal > 255
                        [] k = "int16" -> intVal < 0 \/ intVal > 65535
                        [] k = "int32" -> intVal < 0   \* or above MaxUint32
                        [] OTHER -> FALSE
                 ELSE FALSE
             unsigned == k \notin SignedKinds /\ k \in UnsignedKinds
         IN  IF outOfRange
             THEN [val |-> old, err |-> UError(ErrOutOfRange, <<value, k>>)]
             ELSE IF ~unsigned
             THEN [val |-> SetInt(k, intVal), err |-> UError(NoErr, <<>>)]
             ELSE [val |-> SetUint(k, intVal), err |-> UError(NoErr, <<>>)])

unmarshalBool(old, value) ==
    Bind(ParseBool(value), LAMBDA p :
    IF p.err # NoErr THEN [val |-> old, err |-> UError(p.err, <<value>>)]
    ELSE [val |-> p.val, err |-> UError(NoErr, <<>>)])

unmarshalString(old, value) == [val |-> value, err |-> UError(NoErr, <<>>)]

\* validator(value) for the functions the model registers.
Validate(fn, value) ==
    CASE fn = "notEmpty" -> value # <<>>
      [] fn = "isShort" -> Len(value) <= 2
      [] fn = "noSign" -> value = <<>> \/ Head(value) # "-"
      [] fn = "never" -> FALSE

\* The loop of unmarshalField over the validator names, from the i-th on.
RECURSIVE validate(_, _, _, _, _)
validate(rule, field, names, i, value) ==
    IF i > Len(names) THEN UError(NoErr, <<>>)
    ELSE IF names[i] \notin DOMAIN rule.validators
    THEN UError(ErrNoValidator, <<names[i]>>)
    ELSE IF ~Validate(rule.validators[names[i]], value)
    THEN UError(ErrInvalidValue, <<value, field.Name>>)
    ELSE validate(rule, field, names, i + 1, value)

\* unmarshalField after the validation.  No struct of the model has a field
\* that is a TextUnmarshaler or a float.
convert(field, old, value) ==
    LET k == field.Kind
    IN  IF k \in SignedKinds \cup UnsignedKinds THEN unmarshalInt(k, old, value)
        ELSE IF k = "bool" THEN unmarshalBool(old, value)
        ELSE IF k = "string" THEN unmarshalString(old, value)
        ELSE [val |-> old, err |-> UError(ErrUnsupported, <<k>>)]

\* unmarshalField that converts the value without validating it.
unmarshalFieldUnvalidated(rule, field, old, value) == convert(field, old, value)

unmarshalField(rule, field, old, value) ==
    Bind(validate(rule, field, field.ValidatorNames, 1, value), LAMBDA v :
    IF v.msg # NoErr THEN [val |-> old, err |-> v]
    ELSE convert(field, old, value))

\* prepareFields over the fields of the struct type from the i-th on: the map
\* from the CSV names to the fields.
RECURSIVE prepareFields(_, _, _)
prepareFields(structType, i, fieldMap) ==
    IF i > Len(structType) THEN fieldMap
    ELSE LET structField == structType[i]
         IN  IF structField.Tag = <<>> \/ structField.Tag[1] = <<"-">>
             THEN prepareFields(structType, i + 1, fieldMap)
             ELSE LET field == [ Name |-> structField.Name,
                                 Kind |-> structField.Kind,
                                 CSVName |-> structField.Tag[1],
                                 ValidatorNames |-> Tail(structField.Tag) ]
                  IN  prepareFields(structType, i + 1,
                          [n \in DOMAIN fieldMap \cup {field.CSVName} |->
                              IF n = field.CSVName THEN field ELSE fieldMap[n]])

\* reflect.New of the struct type: every field has its zero value.
ZeroValue(k) ==
    IF k = "bool" THEN FALSE ELSE IF k = "string" THEN <<>> ELSE 0

NewStruct(structType) ==
    [n \in {structType[i].Name : i \in 1..Len(structType)} |->
        ZeroValue(structType[CHOOSE i \in 1..Len(structType) : structType[i].Name = n].Kind)]

\* The loop of unmarshalRecord from the i-th value of the row on.  calls is
\* the history of the calls of unmarshalField: the field, the value, the
\* destination before and after, the error.
RECURSIVE unmarshalRecord(_, _, _, _, _, _, _)
unmarshalRecord(rule, fieldMap, obj, header, row, i, calls) ==
    IF i > Len(row) THEN [obj |-> obj, err |-> UError(NoErr, <<>>), calls |-> calls]
    ELSE IF i > Len(header)
    THEN [obj |-> obj, err |-> UError(ErrIndex, <<i - 1, Len(header)>>), calls |-> calls]
    ELSE IF header[i] \notin DOMAIN fieldMap
    THEN unmarshalRecord(rule, fieldMap, obj, header, row, i + 1, calls)
    ELSE LET field == fieldMap[header[i]]
         IN  Bind(unmarshalField(rule, field, obj[field.Name], row[i]), LAMBDA r :
             Bind(Append(calls, [ field |-> field, value |-> row[i],
                                  old |-> obj[field.Name], new |-> r.val,
                                  err |-> r.err ]), LAMBDA calls1 :
             Bind([obj EXCEPT ![field.Name] = r.val], LAMBDA obj1 :
             IF r.err.msg # NoErr
             THEN [obj |-> obj1, err |-> r.err, calls |-> calls1]
             ELSE unmarshalRecord(rule, fieldMap, obj1, header, row, i + 1, calls1))))

\* The loop of unmarshal over the rows from the i-th on.  The slice gets the
\* length rowCount when it is not longer, and a new struct at rowIndex.
RECURSIVE unmarshalRows(_, _, _, _, _, _, _, _)
unmarshalRows(rule, structType, fieldMap, slice, header, rows, i, calls) ==
    IF i > Len(rows) THEN [dest |-> slice, err |-> UError(NoErr, <<>>), calls |-> calls]
    ELSE Bind(unmarshalRecord(rule, fieldMap, NewStruct(structType), header, rows[i], 1, calls),
         LAMBDA r :
         Bind([j \in 1..(IF i >= Len(slice) THEN i ELSE Len(slice)) |->
                  IF j = i THEN r.obj ELSE slice[j]], LAMBDA slice1 :
         IF r.err.msg # NoErr
         THEN [dest |-> slice1, err |-> r.err, calls |-> r.calls]
         ELSE unmarshalRows(rule, structType, fieldMap, slice1, header, rows, i + 1, r.calls)))

\* Unmarshal(data, dest, settings...) for a pointer to a slice of pointers to
\* structs of the type structType.
Unmarshal(data, structType, slice, settings) ==
    Bind(H_ApplySettings(settings, H_defaultRule), LAMBDA rule :
    Bind(H_Scan(H_NewScanner(data, Append(settings, Header(TRUE)))), LAMBDA scan :
    IF scan.err.msg # NoErr
    THEN [dest |-> slice, err |-> scan.err, calls |-> <<>>]
    ELSE unmarshalRows(rule, structType, prepareFields(structType, 1, <<>>), slice,
                       scan.header, scan.rows, 1, <<>>)))

(***************************************************************************)
(* The inputs of the model.                                                *)
(***************************************************************************)
\* Boundaries between the fields of a record and between the records of a list
\* of rows, in the flat form the rows are drawn from.
FS == "FS"
RS == "RS"

\* The runes of the fields handed to a Generator.
FieldRunes == {"a", " ", ",", "|", DQ, SQ, LF}

SeqsUpTo(set, n) == UNION {[1..k -> set] : k \in 0..n}

\* The segments of q between the occurrences of sep.
RECURSIVE Split(_, _)
Split(q, sep) ==
    LET i == IndexRune(q, sep, 1)
    IN  IF i = 0 THEN <<q>>
        ELSE <<SubSeq(q, 1, i - 1)>> \o Split(SubSeq(q, i + 1, Len(q)), sep)

Rows(q) == LET recs == Split(q, RS) IN [i \in 1..Len(recs) |-> Split(recs[i], FS)]

RECURSIVE SumLen(_)
SumLen(seqs) == IF seqs = <<>> THEN 0 ELSE Len(Head(seqs)) + SumLen(Tail(seqs))

RECURSIVE FlatLen(_)
FlatLen(rows) ==
    IF rows = <<>> THEN 0
    ELSE SumLen(Head(rows)) + Len(Head(rows)) - 1
         + (IF Tail(rows) = <<>> THEN 0 ELSE 1 + FlatLen(Tail(rows)))

\* Every record of at least one field, and every list of such records, that
\* MaxLen runes and boundaries spell.
AllRecords == {Split(q, FS) : q \in SeqsUpTo(FieldRunes \cup {FS}, MaxLen)}
AllRows == {<<>>} \cup {Rows(q) : q \in SeqsUpTo(FieldRunes \cup {FS, RS}, MaxLen)}

\* The records and the lists of rows that n runes and boundaries spell.
RecordsWithin[n \in 0..MaxLen] == {record \in AllRecords : FlatLen(<<record>>) <= n}
RowsWithin[n \in 0..MaxLen] == {rows \in AllRows : FlatLen(rows) <= n}

\* What MaxLen leaves for the rows written after the rows in written.
Room(rows) == IF rows = <<>> THEN MaxLen ELSE MaxLen - FlatLen(rows) - 1

\* The record and the rows handed to a Generator that has been finished.
SealedRecords == { <<<<"a">>>> }
SealedRows == { <<>>, <<<<<<"a">>>>, <<<<"a">>>>>> }

\* The settings a Generator and the Scanner of its output are built with.
RoundTripSettings ==
    { <<>>,
      <<RFC4180>>,
      <<OmitLeadingSpace(FALSE), OmitTrailingSpace(FALSE)>>,
      <<Separator("|")>>,
      <<Prefix("("), Suffix(")")>> }

\* The settings of the configuration specification, alone and in lists.
SettingUniverse ==
    { RFC4180, AllowEmptyField(TRUE), Separator(DQ), Comment(",") }
SettingLists == SeqsUpTo(SettingUniverse, MaxSettings)

\* The documents and records of the configuration specification.
CfgDocs == { <<"a", ",", "b">>, <<"a", LF, "b", LF>> }
CfgRecords == { <<<<"a">>, <<>>>>, <<<<DQ>>>> }

\* The documents handed directly to a Scanner, and their settings.
InputRunes == {"a", ",", DQ, SQ, LF, " "}

\* a,,c
DocEmptyField == <<"a", ",", ",", "c">>
\* a,b,c / ; comment / d,e,f
DocComment ==
    <<"a", ",", "b", ",", "c", LF>>
        \o <<";", " ", "c", "o", "m", "m", "e", "n", "t", LF>>
        \o <<"d", ",", "e", ",", "f">>
\* "aa'a",'bb""b'
DocMixedQuotes ==
    <<DQ, "a", "a", SQ, "a", DQ, ",", SQ, "b", "b", DQ, DQ, "b", SQ>>
\* 'aa''a'
DocDoubledSingleQuote == <<SQ, "a", "a", SQ, SQ, "a", SQ>>
\* a  , b
DocSpaces == <<"a", " ", " ", ",", " ", "b">>
\* a field between one of each space rune on either side
DocAllSpaces == <<"\t", "VT", "\f", "a", " ", "a", " ", "NEL", "NBSP", ",", "b">>

\* a,b / c,d with a line break after the last record.
DocTrailingLineBreak == <<"a", ",", "b", LF, "c", ",", "d", LF>>

\* "a / (a blank line) / b" and "a / ;b / c": one quoted field on three
\* lines.
DocBlankInQuote == <<DQ, "a", LF, LF, "b", DQ>>
DocCommentInQuote == <<DQ, "a", LF, ";", "b", LF, "c", DQ>>

\* a / (a blank line) / b.
DocBlankLine == <<"a", LF, LF, "b">>

\* "a"a: text directly after a closing quote.
DocTextAfterQuote == <<DQ, "a", DQ, "a">>

\* a,a|"a|a"|a / a|a, after csvWithCustomSeparator of the tests.
DocCustomSeparator ==
    <<"a", ",", "a", "|", DQ, "a", "|", "a", DQ, "|", "a", LF, "a", "|", "a">>

\* The documents of the runes a , and |.
BarRunes == {"a", ",", "|"}

\* "a / ;",a / a": a quoted field on three lines, the second of which
\* starts with ; and closes the quote.
DocCommentClosesQuote == <<DQ, "a", LF, ";", DQ, ",", "a", LF, "a", DQ>>

\* ;b / a and a / ;b, without a line break at the end.
DocCommentFirst == <<";", "b", LF, "a">>
DocCommentLast == <<"a", LF, ";", "b">>

ExampleDocs ==
    { DocEmptyField, DocComment, DocMixedQuotes, DocDoubledSingleQuote,
      DocSpaces, DocAllSpaces, DocTrailingLineBreak,
      DocBlankInQuote, DocCommentInQuote, DocCommentFirst, DocCommentLast,
      DocBlankLine, DocTextAfterQuote, DocCustomSeparator,
      DocCommentClosesQuote }

Inputs == SeqsUpTo(InputRunes, MaxInput) \cup SeqsUpTo(BarRunes, MaxInput) \cup ExampleDocs

ScanSettings ==
    { <<>>,
      <<RFC4180>>,
      <<AllowEndingLineBreakInLastRecord(FALSE)>>,
      <<OmitEmptyLine(FALSE)>>,
      <<AllowEmptyField(FALSE)>>,
      <<AllowEmptyField(FALSE), OmitLeadingSpace(FALSE)>>,
      <<OmitLeadingSpace(FALSE), OmitTrailingSpace(FALSE)>>,
      <<Comment(";")>>,
      <<Separator("|")>> }

(***************************************************************************)
(* The state.                                                              *)
(***************************************************************************)
\* The package before any call: defaultRule with no validator map (nil is
\* 0), no map made and no instance built.
NewPackage ==
    [ defaultRule |-> [rule |-> defaultRule, validators |-> 0],
      heap |-> <<>>,
      instances |-> <<>> ]

VARIABLES
    g,         \* the Generator
    s,         \* the Scanner
    live,      \* whether NewScanner has returned a Scanner
    settings,  \* the settings the Generator and the Scanner were built with
    written,   \* the records Write and WriteAll have accepted, in order
    doc,       \* the document the first Finish returned, the Scanner's input
    scanned,   \* the rows Scan and ScanAll have returned, in order
    call,      \* the last call: its arguments, the Generator and the Scanner
               \* before it, its results
    dest,      \* the struct slice Unmarshal stores its result in
    pkg        \* the package: its default rule, the validator maps made
               \* so far, and the rule of every Scanner and Generator built

vars == <<g, s, live, settings, written, doc, scanned, call, dest, pkg>>

\* s0 is the Scanner before the call.
Call(op, g0, records, err, rows, isNil, data) ==
    [ op |-> op, g0 |-> g0, s0 |-> s, records |-> records, err |-> err,
      rows |-> rows, isNil |-> isNil, data |-> data ]

(***************************************************************************)
(* The calls.                                                              *)
(***************************************************************************)
WriteStep(record) ==
    \E r \in {Write(g, record)} :
        /\ g' = r.g
        /\ written' = IF r.err = NoErr THEN Append(written, record) ELSE written
        /\ call' = Call("Write", g, <<record>>, PlainError(r.err), <<>>, TRUE, <<>>)
        /\ UNCHANGED <<s, live, settings, doc, scanned, dest, pkg>>

WriteAllStep(records) ==
    \E r \in {WriteAll(g, records)} :
        /\ g' = r.g
        /\ written' = IF r.err = NoErr THEN written \o records ELSE written
        /\ call' = Call("WriteAll", g, records, PlainError(r.err), <<>>, TRUE, <<>>)
        /\ UNCHANGED <<s, live, settings, doc, scanned, dest, pkg>>

FinishStep ==
    \E r \in {Finish(g)} :
        /\ g' = r.g
        /\ doc' = IF g.finished THEN doc ELSE r.data
        /\ call' = Call("Finish", g, <<>>, PlainError(r.err), <<>>, TRUE, r.data)
        /\ UNCHANGED <<s, live, settings, written, scanned, dest, pkg>>

\* NewScanner over the finished document, with the Generator's settings.
CallNewScanner ==
    /\ g.finished
    /\ ~live
    /\ \E r \in {NewScanner(doc, settings)} :
           /\ s' = r.s
           /\ live' = r.ok
           /\ call' = Call("NewScanner", g, <<>>, r.err, <<>>, TRUE, doc)
    /\ scanned' = <<>>
    /\ UNCHANGED <<g, settings, written, doc, dest, pkg>>

CallScan ==
    /\ live
    /\ \E r \in {Scan(s)} :
           /\ s' = r.s
           /\ scanned' = scanned \o r.rows
           /\ call' = Call("Scan", g, <<>>, r.err, r.rows, r.isNil, <<>>)
    /\ UNCHANGED <<g, live, settings, written, doc, dest, pkg>>

CallScanAll ==
    /\ live
    /\ \E r \in {ScanAll(s)} :
           /\ s' = r.s
           /\ scanned' = scanned \o r.rows
           /\ call' = Call("ScanAll", g, <<>>, r.err, r.rows, r.isNil, <<>>)
    /\ UNCHANGED <<g, live, settings, written, doc, dest, pkg>>

SettingStep(list) ==
    /\ live
    /\ s' = Setting(s, list)
    /\ call' = Call("Setting", g, <<>>, Nil, <<>>, TRUE, <<>>)
    /\ UNCHANGED <<g, live, settings, written, doc, scanned, dest, pkg>>

(***************************************************************************)
(* Spec: a Generator is written and finished, and a Scanner built with the *)
(* same settings scans the document.                                       *)
(***************************************************************************)
Init ==
    /\ settings \in RoundTripSettings
    /\ g = NewGenerator(settings)
    /\ s = newScanner(<<>>, <<>>)
    /\ live = FALSE
    /\ written = <<>>
    /\ doc = <<>>
    /\ scanned = <<>>
    /\ dest = <<>>
    /\ pkg = NewPackage
    /\ call = Call("NewGenerator", g, <<>>, Nil, <<>>, TRUE, <<>>)

\* The Generator is used before the Scanner of its document is built.
CallWrite ==
    /\ ~live
    /\ IF g.finished
       THEN \E record \in SealedRecords : WriteStep(record)
       ELSE /\ Room(written) >= 0
            /\ \E record \in RecordsWithin[Room(written)] : WriteStep(record)

CallWriteAll ==
    /\ ~live
    /\ IF g.finished
       THEN \E records \in SealedRows : WriteAllStep(records)
       ELSE \E records \in (IF Room(written) >= 0 THEN RowsWithin[Room(written)] ELSE {<<>>}) :
               WriteAllStep(records)

CallFinish == ~live /\ FinishStep

Next ==
    \/ CallWrite
    \/ CallWriteAll
    \/ CallFinish
    \/ CallNewScanner
    \/ CallScan
    \/ CallScanAll

Spec == Init /\ [][Next]_vars

(***************************************************************************)
(* SpecCfg: a Generator and a Scanner are built with every list of         *)
(* settings, and every public operation is called on them.                 *)
(***************************************************************************)
InitCfg ==
    /\ settings \in SettingLists
    /\ g = NewGenerator(settings)
    /\ \E d \in CfgDocs :
          \E r \in {NewScanner(d, settings)} :
              /\ s = r.s
              /\ live = r.ok
              /\ doc = d
              /\ call = Call("NewScanner", g, <<>>, r.err, <<>>, TRUE, d)
    /\ written = <<>>
    /\ scanned = <<>>
    /\ dest = <<>>
    /\ pkg = NewPackage

\* A behaviour calls the Generator or the Scanner, which share nothing; Setting
\* is called with one list between two other calls.
GeneratorTurn == call.op \in {"NewScanner", "Write", "WriteAll", "Finish"}
ScannerTurn == call.op \in {"NewScanner", "Setting", "Scan", "ScanAll"}

CfgWrite ==
    /\ GeneratorTurn
    /\ written = <<>>
    /\ \E record \in CfgRecords : WriteStep(record)

CfgWriteAll ==
    /\ GeneratorTurn
    /\ written = <<>>
    /\ WriteAllStep(<<<<<<"a">>>>, <<<<"a", ",">>>>>>)

CfgFinish == GeneratorTurn /\ FinishStep

CfgSetting ==
    /\ call.op \in {"NewScanner", "Scan", "ScanAll"}
    /\ \E list \in SettingLists : SettingStep(list)

CfgScan == ScannerTurn /\ CallScan

CfgScanAll == ScannerTurn /\ CallScanAll

NextCfg ==
    \/ CfgWrite
    \/ CfgWriteAll
    \/ CfgFinish
    \/ CfgSetting
    \/ CfgScan
    \/ CfgScanAll

SpecCfg == InitCfg /\ [][NextCfg]_vars

(***************************************************************************)
(* SpecScan: a Scanner is built over every document and scans it.          *)
(***************************************************************************)
InitScan ==
    /\ settings \in ScanSettings
    /\ g = NewGenerator(settings)
    /\ \E d \in Inputs :
          \E r \in {NewScanner(d, settings)} :
              /\ s = r.s
              /\ live = r.ok
              /\ doc = d
              /\ call = Call("NewScanner", g, <<>>, r.err, <<>>, TRUE, d)
    /\ written = <<>>
    /\ scanned = <<>>
    /\ dest = <<>>
    /\ pkg = NewPackage

NextScan ==
    \/ CallScan
    \/ CallScanAll

SpecScan == InitScan /\ [][NextScan]_vars

(***************************************************************************)
(* SpecHeader: the Scanner of README.md is built over every document, with *)
(* and without Header(true), and Scan is called on it.                     *)
(***************************************************************************)
HeaderRunes == {"a", ",", ";", DQ, LF}

\* A,"B","C<LF>D" / a,b,c, after csvWithHeader of the tests.
DocWithHeader ==
    <<"A", ",", DQ, "B", DQ, ",", DQ, "C", LF, "D", DQ, LF, "a", ",", "b", ",", "c">>

\* ;x / a,b / ; / c,d / e
DocCommentThenHeader ==
    <<";", "x", LF, "a", ",", "b", LF, ";", LF, "c", ",", "d", LF, "e">>

HeaderDocs == SeqsUpTo(HeaderRunes, MaxInput) \cup {DocWithHeader, DocCommentThenHeader}

HeaderSettings ==
    { <<>>,
      <<Header(TRUE)>>,
      <<Header(FALSE)>>,
      <<Header(TRUE), AllowComment(FALSE)>> }

\* s0 is the Scanner before the call.
HeaderCall(op, err, header, rows) ==
    [ op |-> op, s0 |-> s, err |-> err, header |-> header, rows |-> rows ]

InitHeader ==
    /\ settings \in HeaderSettings
    /\ doc \in HeaderDocs
    /\ s = H_NewScanner(doc, settings)
    /\ live = TRUE
    /\ g = NewGenerator(<<>>)
    /\ written = <<>>
    /\ scanned = <<>>
    /\ dest = <<>>
    /\ pkg = NewPackage
    /\ call = HeaderCall("NewScanner", Nil, <<>>, <<>>)

CallHeaderScan ==
    /\ \E r \in {H_Scan(s)} :
           /\ s' = r.s
           /\ scanned' = r.rows
           /\ call' = HeaderCall("Scan", r.err, r.header, r.rows)
    /\ UNCHANGED <<g, live, settings, written, doc, dest, pkg>>

NextHeader == CallHeaderScan

SpecHeader == InitHeader /\ [][NextHeader]_vars

(***************************************************************************)
(* What the claims speak of.                                               *)
(***************************************************************************)
\* A scanner with this rule trims fields.
Trims(rule) == rule.omitLeadingSpace \/ rule.omitTrailingSpace

\* text between the per-field prefix and suffix of the rule.
Wrap(rule, text) ==
    (IF rule.prefix # noRune THEN <<rule.prefix>> ELSE <<>>)
        \o text \o (IF rule.suffix # noRune THEN <<rule.suffix>> ELSE <<>>)

\* field holds the separator, a double quote or a line break.
NeedsQuote(rule, field) ==
    \E i \in 1..Len(field) : field[i] \in {rule.separator, DQ, LF}

\* field with every double quote doubled.
RECURSIVE Doubled(_)
Doubled(field) ==
    IF field = <<>> THEN <<>>
    ELSE (IF Head(field) = DQ THEN <<DQ, DQ>> ELSE <<Head(field)>>) \o Doubled(Tail(field))

\* The serialized form of a field.
Emitted(rule, field) ==
    Wrap(rule, IF NeedsQuote(rule, field) THEN <<DQ>> \o Doubled(field) \o <<DQ>> ELSE field)

\* The strings of seqs with sep between neighbours.
RECURSIVE JoinWith(_, _)
JoinWith(seqs, sep) ==
    IF seqs = <<>> THEN <<>>
    ELSE IF Len(seqs) = 1 THEN seqs[1]
    ELSE seqs[1] \o <<sep>> \o JoinWith(Tail(seqs), sep)

\* The serialized form of a record: its fields with the separator between.
EmittedRecord(rule, record) ==
    JoinWith([i \in 1..Len(record) |-> Emitted(rule, record[i])], rule.separator)

\* The last call is an accepted Write or WriteAll.
Accepted == call.op \in {"Write", "WriteAll"} /\ call.err = Nil

\* The Scanner has been built and has read its document to the end.
ScannedToEnd == live /\ s.eof

(***************************************************************************)
(* SpecWrap: a Scanner with a prefix, a suffix or both is built over       *)
(* documents of fields with and without them, and scans them.              *)
(***************************************************************************)
WrapRunes == {"a", "(", ")", ",", DQ, LF}

\* What stands between the wrappers of a field, and the text it stands for.
WrapBodies ==
    { [raw |-> <<"a">>, val |-> <<"a">>],
      [raw |-> <<>>, val |-> <<>>],
      [raw |-> <<DQ, "a", DQ>>, val |-> <<"a">>],
      [raw |-> <<DQ, ",", DQ>>, val |-> <<",">>],
      [raw |-> <<SQ, ")", SQ>>, val |-> <<")">>] }

\* A field: its body with or without ( before it and ) after it.
WrapFields ==
    [ pre : {<<>>, <<"(">>}, body : WrapBodies, suf : {<<>>, <<")">>} ]

\* The records of one field and of two.
WrapRecords == {<<f>> : f \in WrapFields} \cup (WrapFields \X WrapFields)

\* The text of a record: the texts of its fields with commas between.
TextOf(fields) ==
    JoinWith([i \in 1..Len(fields) |->
                 fields[i].pre \o fields[i].body.raw \o fields[i].suf], ",")

\* (a),("b<LF>b") / ("c"),(d), after csvWithPrefixAndSuffix of the tests.
DocWrapped ==
    <<"(", "a", ")", ",", "(", DQ, "b", LF, "b", DQ, ")", LF,
      "(", DQ, "c", DQ, ")", ",", "(", "d", ")">>

WrapDocs ==
    SeqsUpTo(WrapRunes, MaxInput) \cup {TextOf(r) : r \in WrapRecords} \cup {DocWrapped}

WrapSettings ==
    { <<Prefix("(")>>, <<Suffix(")")>>, <<Prefix("("), Suffix(")")>> }

InitWrap ==
    /\ settings \in WrapSettings
    /\ g = NewGenerator(settings)
    /\ \E d \in WrapDocs :
          \E r \in {NewScanner(d, settings)} :
              /\ s = r.s
              /\ live = r.ok
              /\ doc = d
              /\ call = Call("NewScanner", g, <<>>, r.err, <<>>, TRUE, d)
    /\ written = <<>>
    /\ scanned = <<>>
    /\ dest = <<>>
    /\ pkg = NewPackage

NextWrap ==
    \/ CallScan
    \/ CallScanAll

SpecWrap == InitWrap /\ [][NextWrap]_vars

(***************************************************************************)
(* SpecUnmarshal: Unmarshal is called on documents of a header and rows,   *)
(* with a slice of structs that have a field of every kind of the model,   *)
(* and with and without validators.                                        *)
(***************************************************************************)
\* The struct type of the slice:
\*   I8 int8 `csv:"i"`, I16 int16 `csv:"j"`, N int64 `csv:"n"`,
\*   U8 uint8 `csv:"u"`, U16 uint16 `csv:"v"`, S string `csv:"s"`,
\*   B bool `csv:"b"`, P int8 `csv:"p,short,unsigned"`,
\*   Q string `csv:"q,unknown,short"`, R uint8 `csv:"r,short,unknown"`,
\*   Hidden string `csv:"-"`, Plain string
StructField(name, kind, tag) == [Name |-> name, Kind |-> kind, Tag |-> tag]

RecordType ==
    << StructField("I8", "int8", << <<"i">> >>),
       StructField("I16", "int16", << <<"j">> >>),
       StructField("N", "int64", << <<"n">> >>),
       StructField("U8", "uint8", << <<"u">> >>),
       StructField("U16", "uint16", << <<"v">> >>),
       StructField("S", "string", << <<"s">> >>),
       StructField("B", "bool", << <<"b">> >>),
       StructField("P", "int8", << <<"p">>, "short", "unsigned" >>),
       StructField("Q", "string", << <<"q">>, "unknown", "short" >>),
       StructField("R", "uint8", << <<"r">>, "short", "unknown" >>),
       StructField("Hidden", "string", << <<"-">> >>),
       StructField("Plain", "string", <<>>) >>

\* The header names of the documents: the CSV names of the struct and a name
\* it does not have.
HeaderNames ==
    { <<"i">>, <<"j">>, <<"n">>, <<"u">>, <<"v">>, <<"s">>, <<"b">>, <<"p">>, <<"q">>,
      <<"r">>, <<"-">>, <<"z">> }

\* The field texts of the documents.
FieldTexts ==
    { <<"1">>, <<"-", "1">>, <<"+", "7">>, <<"1", "2", "7">>, <<"1", "2", "8">>,
      <<"-", "1", "2", "8">>, <<"-", "1", "2", "9">>, <<"2", "5", "5">>,
      <<"2", "5", "6">>, <<"3", "0", "0">>, <<"6", "5", "5", "3", "6">>,
      <<"a">>, <<"t", "r", "u", "e">>, <<"-">> }

\* A header of one name and a row of one field, and documents of two columns:
\* p,i / 1,300 and i,p / 1,300, a row longer than its header, two rows.
UnmarshalDocs ==
    { h \o <<LF>> \o f : h \in HeaderNames, f \in FieldTexts }
        \cup { <<"p", ",", "i", LF, "1", ",", "3", "0", "0">>,
               <<"i", ",", "p", LF, "1", ",", "3", "0", "0">>,
               <<"i", LF, "1", ",", "2">>,
               <<"u", ",", "s", LF, "1", ",", "a", LF, "3", "0", "0", ",", "b">>,
               <<"i">>,
               <<>> }

UnmarshalSettings ==
    { <<>>,
      <<Validator("short", "isShort"), Validator("unsigned", "noSign")>>,
      <<Validator("unknown", "never"), Validator("short", "notEmpty"),
        Validator("short", "isShort")>> }

\* The call of Unmarshal: the slice before it, its error, the calls of
\* unmarshalField it made.
UnmarshalCall(op, err, calls) ==
    [ op |-> op, dest0 |-> dest, err |-> err, calls |-> calls ]

InitUnmarshal ==
    /\ settings \in UnmarshalSettings
    /\ doc \in UnmarshalDocs
    /\ s = H_NewScanner(doc, Append(settings, Header(TRUE)))
    /\ live = FALSE
    /\ g = NewGenerator(<<>>)
    /\ written = <<>>
    /\ scanned = <<>>
    /\ dest = <<>>
    /\ pkg = NewPackage
    /\ call = UnmarshalCall("NewSlice", UError(NoErr, <<>>), <<>>)

CallUnmarshal ==
    /\ \E r \in {Unmarshal(doc, RecordType, dest, settings)} :
           /\ dest' = r.dest
           /\ call' = UnmarshalCall("Unmarshal", r.err, r.calls)
    /\ UNCHANGED <<g, s, live, settings, written, doc, scanned, pkg>>

NextUnmarshal == CallUnmarshal

SpecUnmarshal == InitUnmarshal /\ [][NextUnmarshal]_vars

(***************************************************************************)
(* SpecSetting: a Scanner is built over a document, and Setting is called  *)
(* on it between its scans.                                                *)
(***************************************************************************)
\* [A],[B] / (a),("b") / (c),(d), after TestScannerWithPrefixAndSuffix.
DocBracketHeader ==
    <<"[", "A", "]", ",", "[", "B", "]", LF,
      "(", "a", ")", ",", "(", DQ, "b", DQ, ")", LF,
      "(", "c", ")", ",", "(", "d", ")">>

\* a / ;b / c, a / (a blank line) / b, a,b / c|d and a / 'b',c.
DocCommentSecond == <<"a", LF, ";", "b", LF, "c">>
DocBlankSecond == <<"a", LF, LF, "b">>
DocBarSecond == <<"a", ",", "b", LF, "c", "|", "d">>
DocSingleQuoteSecond == <<"a", LF, SQ, "b", SQ, ",", "c">>

SettingRunes == {"a", ";", LF}

SettingDocs ==
    SeqsUpTo(SettingRunes, MaxInput + 1)
        \cup { DocBracketHeader, DocCommentSecond, DocBlankSecond,
               DocBarSecond, DocSingleQuoteSecond }

\* The settings the Scanner is built with, and those of a call of Setting.
SettingStarts == { <<>>, <<Prefix("["), Suffix("]")>> }

SettingChoices ==
    { <<Prefix("("), Suffix(")")>>,
      <<Separator("|")>>,
      <<AllowSingleQuote(FALSE)>>,
      <<Comment(";")>>,
      <<OmitEmptyLine(FALSE)>> }

InitSetting ==
    /\ settings \in SettingStarts
    /\ g = NewGenerator(settings)
    /\ \E d \in SettingDocs :
          \E r \in {NewScanner(d, settings)} :
              /\ s = r.s
              /\ live = r.ok
              /\ doc = d
              /\ call = Call("NewScanner", g, <<>>, r.err, <<>>, TRUE, d)
    /\ written = <<>>
    /\ scanned = <<>>
    /\ dest = <<>>
    /\ pkg = NewPackage

\* Setting is called once, after the first Scan.
SettingBetween ==
    /\ call.op = "Scan" /\ call.err = Nil
    /\ call.s0 = NewScanner(doc, settings).s
    /\ \E list \in SettingChoices : SettingStep(list)

NextSetting ==
    \/ CallScan
    \/ CallScanAll
    \/ SettingBetween

SpecSetting == InitSetting /\ [][NextSetting]_vars

(***************************************************************************)
(* SpecIso: Scanners and Generators are built one after the other from the *)
(* package's default rule, with and without settings, and Setting is       *)
(* called on the Scanners.  A rule is copied as a Go struct is: its fields *)
(* by value, its validators map by reference (a number into the heap of    *)
(* maps made so far, 0 for nil).                                           *)
(***************************************************************************)
MaxInstances == 3

\* setting(&r): what the setting makes of the rule r and of the heap.
applySetting(setting, r, heap) ==
    IF setting.name = "Validator"
    THEN IF r.validators = 0
         THEN [ r |-> [r EXCEPT !.validators = Len(heap) + 1],
                heap |-> Append(heap, [k \in {setting.key} |-> setting.fn]) ]
         ELSE LET m == heap[r.validators]
              IN  [ r |-> r,
                    heap |-> [heap EXCEPT ![r.validators] =
                                 [k \in DOMAIN m \cup {setting.key} |->
                                     IF k = setting.key THEN setting.fn ELSE m[k]]] ]
    ELSE [ r |-> [r EXCEPT !.rule = ApplySetting(setting, r.rule)], heap |-> heap ]

\* for _, setting := range settings { setting(&r) }
RECURSIVE applySettingsTo(_, _, _)
applySettingsTo(list, r, heap) ==
    IF list = <<>> THEN [r |-> r, heap |-> heap]
    ELSE Bind(applySetting(Head(list), r, heap), LAMBDA a :
         applySettingsTo(Tail(list), a.r, a.heap))

\* A constructor that applies the settings to the default rule of the
\* package and hands that rule to the instance.
newInstanceOnDefault(p, kind, list) ==
    Bind(applySettingsTo(list, p.defaultRule, p.heap), LAMBDA a :
    [ defaultRule |-> a.r,
      heap |-> a.heap,
      instances |-> Append(p.instances, [kind |-> kind, rule |-> a.r, own |-> list]) ])

\* NewScanner and NewGenerator: the instance gets a copy of the default
\* rule, and the settings are applied to the copy.  own is the settings
\* applied to the instance so far.
newInstance(p, kind, list) ==
    Bind(applySettingsTo(list, p.defaultRule, p.heap), LAMBDA a :
    [p EXCEPT !.heap = a.heap,
              !.instances = Append(@, [kind |-> kind, rule |-> a.r, own |-> list])])

\* Scanner.Setting on instance i.
settingInstance(p, i, list) ==
    Bind(applySettingsTo(list, p.instances[i].rule, p.heap), LAMBDA a :
    [p EXCEPT !.heap = a.heap,
              !.instances[i] = [@ EXCEPT !.rule = a.r, !.own = @ \o list]])

\* The settings instances are built with, and those of a call of Setting.
IsoSettings ==
    { <<>>,
      <<Separator("|")>>,
      <<Validator("short", "never")>>,
      <<RFC4180, Validator("short", "notEmpty"), Validator("unsigned", "noSign")>> }

IsoLaterSettings ==
    { <<Comment(";")>>, <<Validator("short", "isShort")>> }

IsoCall(op, i, list) == [op |-> op, instance |-> i, settings |-> list, pkg0 |-> pkg]

InitIso ==
    /\ settings = <<>>
    /\ g = NewGenerator(<<>>)
    /\ s = newScanner(<<>>, <<>>)
    /\ live = FALSE
    /\ written = <<>>
    /\ doc = <<>>
    /\ scanned = <<>>
    /\ dest = <<>>
    /\ pkg = NewPackage
    /\ call = IsoCall("init", 0, <<>>)

IsoNewScanner ==
    /\ Len(pkg.instances) < MaxInstances
    /\ \E list \in IsoSettings :
          /\ pkg' = newInstance(pkg, "Scanner", list)
          /\ call' = IsoCall("NewScanner", Len(pkg.instances) + 1, list)
    /\ UNCHANGED <<g, s, live, settings, written, doc, scanned, dest>>

IsoNewGenerator ==
    /\ Len(pkg.instances) < MaxInstances
    /\ \E list \in IsoSettings :
          /\ pkg' = newInstance(pkg, "Generator", list)
          /\ call' = IsoCall("NewGenerator", Len(pkg.instances) + 1, list)
    /\ UNCHANGED <<g, s, live, settings, written, doc, scanned, dest>>

\* Setting is called at most once on a Scanner.
IsoSetting ==
    /\ \E i \in 1..Len(pkg.instances) : \E list \in IsoLaterSettings :
          /\ pkg.instances[i].kind = "Scanner"
          /\ pkg.instances[i].own \in IsoSettings
          /\ pkg' = settingInstance(pkg, i, list)
          /\ call' = IsoCall("Setting", i, list)
    /\ UNCHANGED <<g, s, live, settings, written, doc, scanned, dest>>

NextIso ==
    \/ IsoNewScanner
    \/ IsoNewGenerator
    \/ IsoSetting

SpecIso == InitIso /\ [][NextIso]_vars

(***************************************************************************)
(* SpecStep: ScanAll step by step.  Each action is one pass through a loop *)
(* of the Scanner or the statements between two loops; call holds the      *)
(* place in the code (pc) and the local variables: the rows of ScanAll,    *)
(* the fields of scanRecord, the text of the field being scanned, and the  *)
(* leading quote and foundFirstQuote of scanEscaped.                       *)
(***************************************************************************)
StepRunes == {"a", ",", DQ, LF, " "}

StepDocs == SeqsUpTo(StepRunes, MaxInput) \cup ExampleDocs \cup {DocWrapped}

StepSettings ==
    { <<>>,
      <<RFC4180>>,
      <<AllowEndingLineBreakInLastRecord(FALSE)>>,
      <<OmitEmptyLine(FALSE)>>,
      <<Comment(";")>>,
      <<Prefix("("), Suffix(")")>> }

StepCall(pc, err) ==
    [ op |-> "step", pc |-> pc, rows |-> <<>>, fields |-> <<>>, field |-> <<>>,
      quote |-> noRune, found |-> FALSE, err |-> err ]

At(pc) == call.op = "step" /\ call.pc = pc

\* The step leaves the Scanner as s1 and the call as c1.
Go(s1, c1) ==
    /\ s' = s1
    /\ call' = c1
    /\ UNCHANGED <<g, live, settings, written, doc, scanned, dest, pkg>>

\* return "", err: ScanAll returns s.error(err).
Return(s1, err) == Go(s1, [call EXCEPT !.pc = "failed", !.err = ScannerError(s1, err)])

\* err = s.next(); if err != nil { return "", err }, and then c1.
Next1(c1) ==
    \E n \in {next(s)} :
        IF n.err # NoErr THEN Return(n.s, n.err) ELSE Go(n.s, c1)

InitStep ==
    /\ settings \in StepSettings
    /\ g = NewGenerator(settings)
    /\ \E d \in StepDocs :
          \E r \in {NewScanner(d, settings)} :
              /\ s = r.s
              /\ live = r.ok
              /\ doc = d
              /\ call = StepCall(IF r.ok THEN "ScanAll" ELSE "failed", r.err)
    /\ written = <<>>
    /\ scanned = <<>>
    /\ dest = <<>>
    /\ pkg = NewPackage

\* ScanAll: for !s.eof { row, err := s.scanRecord() ... }
StepScanAll ==
    /\ At("ScanAll")
    /\ IF s.eof
       THEN Go(s, [call EXCEPT !.pc = "done"])
       ELSE Go(s, [call EXCEPT !.pc = "leadSpace", !.fields = <<>>])

\* scanField: the scanSPACE before the field.
StepLeadSpace ==
    /\ At("leadSpace")
    /\ IF s.rule.omitLeadingSpace /\ ~s.eof /\ isSpace(s.c)
       THEN Next1(call)
       ELSE Go(s, [call EXCEPT !.pc = "prefix"])

\* scanField: the prefix.
StepPrefix ==
    /\ At("prefix")
    /\ IF s.rule.prefix # noRune
       THEN IF s.c = s.rule.prefix
            THEN Next1([call EXCEPT !.pc = "body"])
            ELSE Return(s, ErrNoPrefix)
       ELSE Go(s, [call EXCEPT !.pc = "body"])

\* scanField: scanEscaped up to its loop, or scanNonEscaped up to its loop.
StepBody ==
    /\ At("body")
    /\ IF isQuote(s, s.c)
       THEN Next1([call EXCEPT !.pc = "escaped", !.quote = s.c,
                               !.field = <<>>, !.found = FALSE])
       ELSE IF (isComma(s, s.c) \/ isLineEnd(s.c) \/ s.eof) /\ ~s.rule.allowEmptyField
       THEN Return(s, ErrEmptyField)
       ELSE Go(s, [call EXCEPT !.pc = "nonEscaped", !.field = <<>>])

\* scanEscaped: one pass through its loop, or what follows the loop.
StepEscaped ==
    /\ At("escaped")
    /\ IF s.eof
       THEN IF call.found
            THEN Go(s, [call EXCEPT !.pc = "suffix"])
            ELSE Return(s, ErrNoTrailingQuote)
       ELSE IF isQuote(s, s.c)
       THEN IF s.c # call.quote
            THEN IF call.found
                 THEN Go(s, [call EXCEPT !.pc = "suffix"])
                 ELSE Next1([call EXCEPT !.field = @ \o <<s.c>>])
            ELSE IF ~call.found
                 THEN Next1([call EXCEPT !.found = TRUE])
                 ELSE Next1([call EXCEPT !.found = FALSE, !.field = @ \o <<s.c>>])
       ELSE IF call.found
            THEN Go(s, [call EXCEPT !.pc = "suffix"])
            ELSE Next1([call EXCEPT !.field = @ \o <<s.c>>])

\* scanNonEscaped: one pass through its loop, or leaving it.
StepNonEscaped ==
    /\ At("nonEscaped")
    /\ IF /\ ~s.eof /\ ~isLineEnd(s.c) /\ ~isComma(s, s.c)
          /\ (s.rule.suffix = noRune \/ s.c # s.rule.suffix)
       THEN Next1([call EXCEPT !.field = @ \o <<s.c>>])
       ELSE Go(s, [call EXCEPT !.pc = "suffix"])

\* The suffix, after a quoted field in scanField and after the loop in
\* scanNonEscaped.
StepSuffix ==
    /\ At("suffix")
    /\ IF s.rule.suffix # noRune
       THEN IF s.c # s.rule.suffix
            THEN Return(s, ErrNoSuffix)
            ELSE Next1([call EXCEPT !.pc = "trailSpace"])
       ELSE Go(s, [call EXCEPT !.pc = "trailSpace"])

\* scanField: TrimRightFunc and the scanSPACE after the field.
StepTrailSpace ==
    /\ At("trailSpace")
    /\ IF s.rule.omitTrailingSpace
       THEN IF ~s.eof /\ isSpace(s.c)
            THEN Next1(call)
            ELSE Go(s, [call EXCEPT !.pc = "fieldDone",
                                    !.field = TrimRightFunc(@, SpaceRunes)])
       ELSE Go(s, [call EXCEPT !.pc = "fieldDone"])

\* scanRecord: fields = append(fields, field), and the test of its loop with
\* the scanCOMMA that follows it.
StepFieldDone ==
    /\ At("fieldDone")
    /\ IF ~s.eof /\ ~isLineEnd(s.c)
       THEN IF s.c # s.rule.separator
            THEN Return(s, ErrExpectSeparator)
            ELSE Next1([call EXCEPT !.pc = "leadSpace",
                                    !.fields = Append(@, call.field)])
       ELSE Go(s, [call EXCEPT !.pc = "endRecord", !.fields = Append(@, call.field)])

\* scanRecord: err = s.nextLine(), and ScanAll: rows = append(rows, row).
StepEndRecord ==
    /\ At("endRecord")
    /\ \E n \in {nextLine(s)} :
          IF n.err # NoErr THEN Return(n.s, n.err)
          ELSE Go(n.s, [call EXCEPT !.pc = "ScanAll", !.rows = Append(@, call.fields)])

NextStep ==
    \/ StepScanAll
    \/ StepLeadSpace
    \/ StepPrefix
    \/ StepBody
    \/ StepEscaped
    \/ StepNonEscaped
    \/ StepSuffix
    \/ StepTrailSpace
    \/ StepFieldDone
    \/ StepEndRecord

\* The code runs on: no step waits for ever.
SpecStep == InitStep /\ [][NextStep]_vars /\ WF_vars(NextStep)

(***************************************************************************)
(* C1..C6, under Spec.                                                     *)
(***************************************************************************)
\* C1: with a configuration that trims no spaces, building the Scanner over
\* the document finished from the written rows and scanning it to the end
\* returns no error and exactly the written rows.
C1_RoundTrip ==
    ~Trims(g.rule) =>
        /\ call.op \in {"NewScanner", "Scan", "ScanAll"} => call.err \in {Nil, IoEOF}
        /\ ScannedToEnd => scanned = written

\* C2: a field an accepted Write or WriteAll wrote is emitted unquoted exactly
\* when it holds no separator, no double quote and no line break, and is
\* otherwise emitted between double quotes; a record of one field written to
\* an empty Generator leaves exactly that in the buffer.
C2_QuotingNecessity ==
    Accepted =>
        /\ \A i \in 1..Len(call.records) : \A j \in 1..Len(call.records[i]) :
              LET field == call.records[i][j]
                  out == writeField([call.g0 EXCEPT !.w = <<>>], field).w
              IN  /\ (out = Wrap(g.rule, field)) <=> ~NeedsQuote(g.rule, field)
                  /\ NeedsQuote(g.rule, field) =>
                        out = Wrap(g.rule, <<DQ>> \o Doubled(field) \o <<DQ>>)
        /\ (call.op = "Write" /\ call.g0.w = <<>> /\ Len(call.records[1]) = 1) =>
              LET field == call.records[1][1]
              IN  (g.w = Wrap(g.rule, field)) <=> ~NeedsQuote(g.rule, field)

\* C2 witness: an accepted Write of one field that holds the configured
\* separator "|" and nothing else that needs quoting, and was quoted.
C2_Witness ==
    /\ Accepted /\ call.op = "Write"
    /\ g.rule.separator = "|"
    /\ call.records = <<<<<<"a", "|">>>>>>
    /\ call.g0.w = <<>>
    /\ g.w = <<DQ, "a", "|", DQ>>

\* C3: a field holding a double quote, written as the only field of the only
\* record, is emitted between double quotes with every inner quote doubled,
\* and scanning that document to the end returns exactly the field.
C3_DoubledQuoteRoundTrip ==
    (Len(written) = 1 /\ Len(written[1]) = 1 /\ ContainsRune(written[1][1], DQ)) =>
        /\ ~g.finished => g.w = Wrap(g.rule, <<DQ>> \o Doubled(written[1][1]) \o <<DQ>>)
        /\ call.op \in {"NewScanner", "Scan", "ScanAll"} => call.err \in {Nil, IoEOF}
        /\ ScannedToEnd => scanned = written

\* C4: once the Generator is finished it stays finished, and every Write and
\* WriteAll on it returns an error and leaves its content as it was.
C4_SealingOneWay ==
    call.g0.finished =>
        /\ g.finished
        /\ call.op \in {"Write", "WriteAll"} =>
              /\ call.err = PlainError(ErrFinished)
              /\ g.w = call.g0.w
              /\ g.buf = call.g0.buf

\* C4 witness: WriteAll of records was called on a finished Generator and
\* returned an error.
C4_Witness ==
    /\ call.g0.finished
    /\ call.op = "WriteAll"
    /\ call.records # <<>>
    /\ call.err # Nil

\* Write called on g with each record of records in turn.
RECURSIVE WriteEach(_, _)
WriteEach(g0, records) ==
    IF records = <<>> THEN g0 ELSE WriteEach(Write(g0, Head(records)).g, Tail(records))

\* C5: WriteAll leaves the Generator as Write called once per record in
\* order leaves it, and Finish then returns the same data.
C5_WriteAllIsRepeatedWrite ==
    call.op = "WriteAll" =>
        /\ g = WriteEach(call.g0, call.records)
        /\ Finish(g).data = Finish(WriteEach(call.g0, call.records)).data

\* C5 witness: WriteAll of two records or more on a Generator that holds
\* records already.
C5_Witness ==
    /\ Accepted /\ call.op = "WriteAll"
    /\ Len(call.records) >= 2
    /\ call.g0.w # <<>>

\* C6: the content of a writable Generator is the serialized forms of the
\* written records in order, with one line break between neighbours.
C6_TerminatorSeparated ==
    ~g.finished =>
        g.w = JoinWith([i \in 1..Len(written) |-> EmittedRecord(g.rule, written[i])], LF)

(***************************************************************************)
(* C7..C9, under SpecCfg.                                                  *)
(***************************************************************************)
\* A quote rune or the comment rune of the rule is its separator, prefix or
\* suffix.
Conflicting(rule) ==
    LET quotes == {DQ} \cup (IF rule.allowSingleQuote THEN {SQ} ELSE {})
        marks == quotes \cup (IF rule.comment # noRune THEN {rule.comment} ELSE {})
    IN  marks \cap {rule.separator, rule.prefix, rule.suffix} # {}

\* C7: no Generator is built with a conflicting configuration, and NewScanner
\* returns no Scanner for one.
C7_ConflictRejected ==
    /\ ~Conflicting(g.rule)
    /\ (call.op = "NewScanner" /\ live) => ~Conflicting(s.rule)

\* The fields of the rule a setting assigns.
Touches(setting) ==
    CASE setting.name = "RFC4180" -> DOMAIN defaultRule
      [] setting.name = "Separator" -> {"separator"}
      [] setting.name = "Prefix" -> {"prefix"}
      [] setting.name = "Suffix" -> {"suffix"}
      [] setting.name = "Comment" -> {"comment"}
      [] setting.name = "AllowSingleQuote" -> {"allowSingleQuote"}
      [] setting.name = "AllowEmptyField" -> {"allowEmptyField"}
      [] setting.name = "OmitLeadingSpace" -> {"omitLeadingSpace"}
      [] setting.name = "OmitTrailingSpace" -> {"omitTrailingSpace"}
      [] setting.name = "OmitEmptyLine" -> {"omitEmptyLine"}
      [] setting.name = "AllowEndingLineBreakInLastRecord" ->
            {"allowEndingLineBreakInLastRecord"}

\* The value of field key after the list: the one its last setting that
\* assigns key gives it, the default when none does.
LastWins(list, key) ==
    LET assigning == {i \in 1..Len(list) : key \in Touches(list[i])}
        last == CHOOSE i \in assigning : \A j \in assigning : j <= i
    IN  IF assigning = {} THEN defaultRule[key]
        ELSE ApplySetting(list[last], defaultRule)[key]

\* C8: the rule NewGenerator and NewScanner compute holds, field by field,
\* the value of the last setting assigning the field; RFC4180 followed by
\* AllowEmptyField(true) allows empty fields, the reverse order does not.
C8_LastSettingWins ==
    /\ \A key \in DOMAIN defaultRule :
          /\ g.rule[key] = LastWins(settings, key)
          /\ call.op = "NewScanner" => s.rule[key] = LastWins(settings, key)
    /\ settings = <<RFC4180, AllowEmptyField(TRUE)>> =>
          /\ g.rule.allowEmptyField
          /\ call.op = "NewScanner" => s.rule.allowEmptyField
    /\ settings = <<AllowEmptyField(TRUE), RFC4180>> =>
          /\ ~g.rule.allowEmptyField
          /\ call.op = "NewScanner" => ~s.rule.allowEmptyField

\* C8 witness: a Scanner and a Generator built with RFC4180 followed by
\* AllowEmptyField(true), both allowing empty fields.
C8_Witness ==
    /\ call.op = "NewScanner" /\ live
    /\ settings = <<RFC4180, AllowEmptyField(TRUE)>>
    /\ s.rule.allowEmptyField /\ g.rule.allowEmptyField
    /\ ~s.rule.allowSingleQuote

C10_EOFOnlyWithNilRow ==
    (call.op = "Scan" /\ call.err = IoEOF) => call.isNil

(***************************************************************************)
(* C11.., under SpecScan.                                                  *)
(***************************************************************************)
\* a is b or starts b.
IsPrefix(a, b) == Len(a) <= Len(b) /\ SubSeq(b, 1, Len(a)) = a

\* The last call is a Scan or a ScanAll that failed.
Failed == call.op \in {"Scan", "ScanAll"} /\ call.err \notin {Nil, IoEOF}

\* C11: when ScanAll on a fresh Scanner over the document returns its rows
\* without error, no Scan or ScanAll fails, the rows returned so far start
\* those rows, and they are all of them once a Scan has returned io.EOF or
\* a ScanAll, after any number of Scan calls, has returned.
C11_ScanAndScanAllAgree ==
    LET fresh == NewScanner(doc, settings)
        all == ScanAll(fresh.s)
    IN  (fresh.ok /\ all.err = Nil) =>
            /\ call.op \in {"Scan", "ScanAll"} => call.err \in {Nil, IoEOF}
            /\ IsPrefix(scanned, all.rows)
            /\ (call.op = "Scan" /\ call.err = IoEOF) => scanned = all.rows
            /\ call.op = "ScanAll" => scanned = all.rows

\* C11 witness: a ScanAll called after a Scan has returned the remaining
\* rows.
C11_Witness ==
    /\ call.op = "ScanAll" /\ call.err = Nil
    /\ call.rows # <<>>
    /\ Len(scanned) > Len(call.rows)

\* Scan called on s0 until it returns an error or io.EOF: its last result.
RECURSIVE ScanEach(_)
ScanEach(s0) ==
    LET r == Scan(s0) IN IF r.err = Nil THEN ScanEach(r.s) ELSE r

\* C12: a Scan or ScanAll that fails returns no row, its error holds the line
\* number and the position of the Scanner, and it leaves the Scanner where
\* the first failing Scan of a row-by-row scan leaves it, with that error.
C12_NoPartialSuccess ==
    Failed =>
        /\ call.isNil /\ call.rows = <<>>
        /\ call.err.lineNo = s.lineNo /\ call.err.pos = s.pos
        /\ call.err = ScanEach(call.s0).err
        /\ s = ScanEach(call.s0).s

\* C12 witness: a ScanAll failed after it had scanned a row.
C12_Witness ==
    /\ Failed /\ call.op = "ScanAll"
    /\ ~call.s0.eof
    /\ Scan(call.s0).err = Nil

\* The document holds no quote rune; it holds no space rune.
PlainDoc(d) == \A i \in 1..Len(d) : d[i] \notin {DQ, SQ}
NoSpaces(d) == \A i \in 1..Len(d) : d[i] \notin SpaceRunes

\* No Scanner call has failed in the last call.
NoScanError == call.op \in {"NewScanner", "Scan", "ScanAll"} => call.err \in {Nil, IoEOF}

\* seq without its last element.
DropLast(seq) == SubSeq(seq, 1, Len(seq) - 1)

\* seq without the elements that are the empty sequence.
RECURSIVE NonEmpty(_)
NonEmpty(seq) ==
    IF seq = <<>> THEN <<>>
    ELSE (IF Head(seq) = <<>> THEN <<>> ELSE <<Head(seq)>>) \o NonEmpty(Tail(seq))

\* field without its leading, and without its trailing, space runes.
RECURSIVE TrimLeft(_)
TrimLeft(field) ==
    IF field # <<>> /\ Head(field) \in SpaceRunes THEN TrimLeft(Tail(field)) ELSE field

RECURSIVE TrimRight(_)
TrimRight(field) ==
    IF field # <<>> /\ field[Len(field)] \in SpaceRunes
    THEN TrimRight(DropLast(field)) ELSE field

Trimmed(rule, field) ==
    LET left == IF rule.omitLeadingSpace THEN TrimLeft(field) ELSE field
    IN  IF rule.omitTrailingSpace THEN TrimRight(left) ELSE left

\* The physical lines of a document without their line breaks: a line break
\* at the very end starts no line.
Lines(d) ==
    LET segments == Split(d, LF)
    IN  IF segments[Len(segments)] = <<>> THEN DropLast(segments) ELSE segments

\* The rows of a document without quotes and comments: one per line, blank
\* lines left out when the rule omits them, the fields between the
\* separators, trimmed as the rule says.
ExpectedRows(rule, d) ==
    LET lines == IF rule.omitEmptyLine THEN NonEmpty(Lines(d)) ELSE Lines(d)
    IN  [i \in 1..Len(lines) |->
            LET fields == Split(lines[i], rule.separator)
            IN  [j \in 1..Len(fields) |-> Trimmed(rule, fields[j])]]

\* The physical line, with or without its line break, has an empty field.
LineHasEmptyField(rule, line) ==
    LET text == IF line # <<>> /\ line[Len(line)] = LF THEN DropLast(line) ELSE line
        fields == Split(text, rule.separator)
    IN  \E j \in 1..Len(fields) : fields[j] = <<>>

\* C13: in a document without quotes and spaces, with empty fields allowed
\* the scan returns every empty field as the empty string (a,,c gives
\* [a, "", c]); with empty fields disallowed, scanning a line that has an
\* empty field fails with the empty-field error.
C13_EmptyFieldBoundary ==
    (PlainDoc(doc) /\ NoSpaces(doc) /\ s.rule.comment = noRune
        /\ s.rule.allowEndingLineBreakInLastRecord) =>
        /\ s.rule.allowEmptyField =>
              /\ NoScanError
              /\ ScannedToEnd => scanned = ExpectedRows(s.rule, doc)
        /\ (~s.rule.allowEmptyField /\ call.op \in {"Scan", "ScanAll"}
               /\ ~call.s0.eof /\ call.s0.pos = 0
               /\ LineHasEmptyField(s.rule, call.s0.line)) =>
              call.isNil /\ call.err.msg = ErrEmptyField
        /\ (doc = DocEmptyField /\ settings = <<>> /\ ScannedToEnd) =>
              scanned = << << <<"a">>, <<>>, <<"c">> >> >>
        /\ (doc = DocEmptyField /\ settings = <<AllowEmptyField(FALSE)>>
               /\ call.op \in {"Scan", "ScanAll"}) =>
              call.isNil /\ call.err.msg = ErrEmptyField

\* C13 witness: a,,c scanned with AllowEmptyField(false) failed on the empty
\* field.
C13_Witness ==
    /\ doc = DocEmptyField /\ settings = <<AllowEmptyField(FALSE)>>
    /\ Failed /\ call.err.msg = ErrEmptyField
    /\ call.err.lineNo = 1 /\ call.err.pos = 2

\* The rows of a,b,c / d,e,f, and the row of the line between them.
RowsAroundComment == << <<<<"a">>, <<"b">>, <<"c">>>>, <<<<"d">>, <<"e">>, <<"f">>>> >>
RowOfComment == << <<";", " ", "c", "o", "m", "m", "e", "n", "t">> >>

RECURSIVE WellDoubled(_, _)
WellDoubled(body, q) ==
    IF body = <<>> THEN TRUE
    ELSE IF Head(body) # q THEN WellDoubled(Tail(body), q)
    ELSE Len(body) >= 2 /\ body[2] = q /\ WellDoubled(Tail(Tail(body)), q)

RECURSIVE Undoubled(_, _)
Undoubled(body, q) ==
    IF body = <<>> THEN <<>>
    ELSE IF Head(body) # q THEN <<Head(body)>> \o Undoubled(Tail(body), q)
    ELSE <<q>> \o Undoubled(Tail(Tail(body)), q)

\* What lies between the first and the last rune of the document.
Interior(d) == SubSeq(d, 2, Len(d) - 1)

\* The document is one field in quotes q, on one line, without spaces.
IsQuotedField(d, q) ==
    /\ Len(d) >= 2 /\ d[1] = q /\ d[Len(d)] = q
    /\ WellDoubled(Interior(d), q)
    /\ \A i \in 1..Len(d) : d[i] # LF /\ d[i] \notin SpaceRunes

\* C15: with single quotes allowed, a document that is one field opened by
\* the quote q scans to that field with the other quote rune kept as text,
\* every doubled q made one q, and the field closed by the last, undoubled,
\* q; "aa'a",'bb""b' scans, with the separator ',', to [aa'a, bb""b] and
\* 'aa''a' to [aa'a].
C15_MixedQuoteStyles ==
    (s.rule.allowSingleQuote /\ s.rule.allowEndingLineBreakInLastRecord) =>
        /\ \A q \in {DQ, SQ} :
              IsQuotedField(doc, q) =>
                  /\ NoScanError
                  /\ ScannedToEnd => scanned = << <<Undoubled(Interior(doc), q)>> >>
        /\ (doc = DocMixedQuotes /\ s.rule.separator = ",") => NoScanError
        /\ doc = DocDoubledSingleQuote => NoScanError
        /\ (doc = DocMixedQuotes /\ s.rule.separator = "," /\ ScannedToEnd) =>
              scanned = << << <<"a", "a", SQ, "a">>, <<"b", "b", DQ, DQ, "b">> >> >>
        /\ (doc = DocDoubledSingleQuote /\ ScannedToEnd) =>
              scanned = << << <<"a", "a", SQ, "a">> >> >>

\* C15 witness: "aa'a",'bb""b' has been scanned to [aa'a, bb""b].
C15_Witness ==
    /\ doc = DocMixedQuotes /\ settings = <<>>
    /\ ScannedToEnd
    /\ scanned = << << <<"a", "a", SQ, "a">>, <<"b", "b", DQ, DQ, "b">> >> >>

\* C16: in a document without quotes, with leading and trailing spaces both
\* omitted every field is returned without the space runes before and after
\* it, and with both kept every field is returned with all its runes;
\* `a  , b` scans to [a, b] and to [`a  `, ` b`].
C16_WhitespaceTrimming ==
    /\ (PlainDoc(doc) /\ s.rule.comment = noRune /\ s.rule.allowEmptyField
           /\ s.rule.allowEndingLineBreakInLastRecord
           /\ s.rule.omitLeadingSpace = s.rule.omitTrailingSpace) =>
          /\ NoScanError
          /\ ScannedToEnd => scanned = ExpectedRows(s.rule, doc)
    /\ (doc = DocSpaces /\ settings = <<>> /\ ScannedToEnd) =>
          scanned = << << <<"a">>, <<"b">> >> >>
    /\ (doc = DocSpaces /\ ScannedToEnd
           /\ settings = <<OmitLeadingSpace(FALSE), OmitTrailingSpace(FALSE)>>) =>
          scanned = << << <<"a", " ", " ">>, <<" ", "b">> >> >>
    /\ (doc = DocAllSpaces /\ settings = <<>> /\ ScannedToEnd) =>
          scanned = << << <<"a", " ", "a">>, <<"b">> >> >>

\* C16 witness: `a  , b` has been scanned with the default settings, to
\* [a, b].
C16_Witness ==
    /\ doc = DocSpaces /\ settings = <<>>
    /\ ScannedToEnd
    /\ scanned = << << <<"a">>, <<"b">> >> >>

\* The document, without double quotes, has a line with an empty field; it
\* has a field of two runes or more that starts and ends with a single quote.
HasEmptyField(rule, d) ==
    /\ \A i \in 1..Len(d) : d[i] # DQ
    /\ \E i \in 1..Len(Lines(d)) : LineHasEmptyField(rule, Lines(d)[i])

HasSingleQuotedField(rule, d) ==
    /\ \A i \in 1..Len(d) : d[i] # DQ
    /\ \E i \in 1..Len(Lines(d)) :
          LET fields == Split(Lines(d)[i], rule.separator)
          IN  \E j \in 1..Len(fields) :
                  /\ Len(fields[j]) >= 2
                  /\ fields[j][1] = SQ /\ fields[j][Len(fields[j])] = SQ

\* The last call is a ScanAll on the Scanner as NewScanner returned it.
ScanAllFromStart ==
    /\ live /\ call.op = "ScanAll"
    /\ call.s0 = NewScanner(doc, settings).s

\* Under RFC4180 a ScanAll of a document that has an empty field fails, with
\* the empty-field error.
StrictRejectsEmptyField ==
    (settings = <<RFC4180>> /\ ScanAllFromStart /\ HasEmptyField(s.rule, doc)) =>
        Failed /\ call.err.msg = ErrEmptyField

\* Under RFC4180 a ScanAll of a document that has a single-quoted field
\* fails.
StrictRejectsSingleQuote ==
    (settings = <<RFC4180>> /\ ScanAllFromStart /\ HasSingleQuotedField(s.rule, doc)) =>
        Failed

\* C17: under RFC4180 the scan of every document that has an empty field,
\* and of every document that has a single-quoted field such as 'a', fails.
C17_StrictPresetRejects == StrictRejectsEmptyField /\ StrictRejectsSingleQuote

(***************************************************************************)
(* C18, under SpecHeader.                                                  *)
(***************************************************************************)
\* The last call is the first Scan on the Scanner.
FirstScan == call.op = "Scan" /\ call.s0 = H_NewScanner(doc, settings)

\* seq without the lines that start with the comment rune of the rule.
RECURSIVE WithoutComments(_, _)
WithoutComments(rule, lines) ==
    IF lines = <<>> THEN <<>>
    ELSE (IF rule.allowComment /\ Head(lines) # <<>> /\ Head(lines)[1] = rule.comment
          THEN <<>> ELSE <<Head(lines)>>) \o WithoutComments(rule, Tail(lines))

\* The records of a document without quotes: one per line that is no
\* comment, the fields between the separators, trimmed as the rule says.
RecordsOf(rule, d) ==
    LET lines == WithoutComments(rule, Lines(d))
    IN  [i \in 1..Len(lines) |->
            LET fields == Split(lines[i], rule.separator)
            IN  [j \in 1..Len(fields) |-> Trimmed(rule, fields[j])]]

\* The result of Scan on the document with the settings and Header(false).
ScanAsRows == H_Scan(H_NewScanner(doc, Append(settings, Header(FALSE))))

\* C18: with Header(true) the first Scan returns the first record that is no
\* comment as the header and the records after it as the rows, and fails as
\* the scan with Header(false) fails; with Header(false) it returns no header
\* and every record as a row; a Scan called again after the document has
\* been scanned returns the same header and the same rows.
C18_HeaderHandling ==
    /\ (FirstScan /\ PlainDoc(doc)) =>
          LET records == RecordsOf(s.rule, doc)
          IN  /\ call.err = Nil
              /\ s.rule.header =>
                    /\ call.header = IF records = <<>> THEN <<>> ELSE Head(records)
                    /\ call.rows = IF records = <<>> THEN <<>> ELSE Tail(records)
              /\ ~s.rule.header => call.header = <<>> /\ call.rows = records
    /\ (FirstScan /\ s.rule.header) =>
          /\ call.err = ScanAsRows.err
          /\ call.err = Nil =>
                /\ <<call.header>> \o call.rows = ScanAsRows.rows
                      \/ (call.header = <<>> /\ call.rows = <<>> /\ ScanAsRows.rows = <<>>)
                /\ s.headerScanned = (call.header # <<>>)
    /\ (FirstScan /\ ~s.rule.header) => call.header = <<>> /\ ~s.headerScanned
    /\ (call.op = "Scan" /\ call.s0.eof) =>
          /\ call.err = Nil
          /\ call.header = call.s0.header /\ call.rows = call.s0.rows
    /\ (FirstScan /\ doc = DocWithHeader /\ settings = <<Header(TRUE)>>) =>
          /\ call.header = << <<"A">>, <<"B">>, <<"C", LF, "D">> >>
          /\ call.rows = << << <<"a">>, <<"b">>, <<"c">> >> >>
    /\ (FirstScan /\ doc = DocCommentThenHeader /\ settings = <<Header(TRUE)>>) =>
          /\ call.header = << <<"a">>, <<"b">> >>
          /\ call.rows = << << <<"c">>, <<"d">> >>, << <<"e">> >> >>

\* C18 witness: the header of ;x / a,b / ; / c,d / e has been returned, with
\* the two rows after it.
C18_Witness ==
    /\ FirstScan /\ doc = DocCommentThenHeader /\ settings = <<Header(TRUE)>>
    /\ call.err = Nil
    /\ call.header = << <<"a">>, <<"b">> >>
    /\ Len(call.rows) = 2

(***************************************************************************)
(* C19.., under SpecScan.                                                  *)
(***************************************************************************)
\* The document ends with a line break; the document without it, and the
\* result of ScanAll on a Scanner over that.
EndsWithLineBreak(d) == d # <<>> /\ d[Len(d)] = LF
WithoutLastLineBreak == DropLast(doc)
ScanWithoutLastLineBreak == ScanAll(NewScanner(WithoutLastLineBreak, settings).s)

\* C19: with no settings, when a document scans without error, the document
\* with one line break more at its end scans without error to the same rows:
\* a,b / c,d with a line break at the end scans to [a,b] and [c,d].
C19_TrailingLineBreakTolerated ==
    /\ (settings = <<>> /\ EndsWithLineBreak(doc)
           /\ ScanWithoutLastLineBreak.err = Nil) =>
          /\ NoScanError
          /\ ScannedToEnd => scanned = ScanWithoutLastLineBreak.rows
    /\ (settings = <<>> /\ doc = DocTrailingLineBreak) =>
          /\ NoScanError
          /\ ScannedToEnd =>
                scanned = << << <<"a">>, <<"b">> >>, << <<"c">>, <<"d">> >> >>

\* C19 witness: a,b / c,d with a line break at the end has been scanned row
\* by row to the end, to two rows.
C19_Witness ==
    /\ settings = <<>> /\ doc = DocTrailingLineBreak
    /\ call.op = "Scan" /\ call.err = IoEOF
    /\ Len(scanned) = 2

(***************************************************************************)
(* C20, under SpecWrap.                                                    *)
(***************************************************************************)
\* The last call is the first Scan or ScanAll on the Scanner.
FirstCall ==
    /\ call.op \in {"Scan", "ScanAll"}
    /\ call.s0 = NewScanner(doc, settings).s

\* The fields have no ( where the rule has no prefix and no ) where it has
\* no suffix.
Fits(rule, fields) ==
    \A i \in 1..Len(fields) :
        /\ rule.prefix = noRune => fields[i].pre = <<>>
        /\ rule.suffix = noRune => fields[i].suf = <<>>

\* What the scan of a record comes to: the error of its first field that
\* lacks the prefix or the suffix of the rule, or the texts of its fields.
RECURSIVE Outcome(_, _, _)
Outcome(rule, fields, row) ==
    IF fields = <<>> THEN [err |-> NoErr, row |-> row]
    ELSE IF rule.prefix # noRune /\ Head(fields).pre = <<>>
    THEN [err |-> ErrNoPrefix, row |-> <<>>]
    ELSE IF rule.suffix # noRune /\ Head(fields).suf = <<>>
    THEN [err |-> ErrNoSuffix, row |-> <<>>]
    ELSE Outcome(rule, Tail(fields), Append(row, Head(fields).body.val))

\* C20: with a prefix, a suffix or both set, the scan of a record whose
\* fields, quoted and unquoted, all have them returns the texts of the
\* fields without them, and the scan of a record with a field that lacks
\* one fails at the first such field, with 'prefix not found' when the
\* prefix is lacking and with 'suffix not found' when the suffix is.
C20_PrefixSuffixMandatory ==
    /\ FirstCall =>
          \A fields \in WrapRecords :
              (doc = TextOf(fields) /\ doc # <<>> /\ Fits(s.rule, fields)) =>
                  LET o == Outcome(s.rule, fields, <<>>)
                  IN  IF o.err = NoErr
                      THEN call.err \in {Nil, IoEOF} /\ call.rows = <<o.row>>
                      ELSE call.isNil /\ call.err.msg = o.err
    /\ (doc = DocWrapped /\ settings = <<Prefix("("), Suffix(")")>>) =>
          /\ NoScanError
          /\ ScannedToEnd =>
                scanned = << << <<"a">>, <<"b", LF, "b">> >>, << <<"c">>, <<"d">> >> >>
    /\ (doc = DocWrapped /\ settings # <<Prefix("("), Suffix(")")>> /\ FirstCall) =>
          call.isNil /\ call.err.msg \in {ErrNoPrefix, ErrNoSuffix, ErrExpectSeparator}

\* C20 witness: (a),("a") has been scanned with both set, to [a, a].
C20_Witness ==
    /\ settings = <<Prefix("("), Suffix(")")>>
    /\ doc = <<"(", "a", ")", ",", "(", DQ, "a", DQ, ")">>
    /\ FirstCall /\ call.op = "ScanAll" /\ call.err = Nil
    /\ scanned = << << <<"a">>, <<"a">> >> >>

(***************************************************************************)
(* C21.., under SpecScan.                                                  *)
(***************************************************************************)
\* The document is one field in double quotes, with no other quote and no
\* space rune in it; line breaks may stand between the quotes.
IsMultiLineQuotedField(d) ==
    /\ Len(d) >= 2 /\ d[1] = DQ /\ d[Len(d)] = DQ
    /\ \A i \in 2..(Len(d) - 1) : d[i] \notin {DQ, SQ} \cup SpaceRunes

\* C21: a document that is one quoted field scans without error to the
\* text between its quotes, with every line break, every blank line and every
\* line that starts with the comment rune in it.
C21_MultiLineQuotedField ==
    (IsMultiLineQuotedField(doc) /\ s.rule.allowEndingLineBreakInLastRecord) =>
        /\ NoScanError
        /\ ScannedToEnd => scanned = << <<Interior(doc)>> >>

\* The document is the quote q followed by runes among which every q is one
\* of a pair: an opened field that is never closed.
IsOpenQuotedField(d, q) ==
    /\ Len(d) >= 1 /\ d[1] = q
    /\ WellDoubled(Tail(d), q)

\* The document is q, runes among which every q is one of a pair, and q.
IsClosedQuotedField(d, q) ==
    /\ Len(d) >= 2 /\ d[1] = q /\ d[Len(d)] = q
    /\ WellDoubled(Interior(d), q)

Unregistered(rule, names, i) == names[i] \notin DOMAIN rule.validators

BadAt(rule, names, value, i) ==
    Unregistered(rule, names, i) \/ ~Validate(rule.validators[names[i]], value)

\* The least number of a set of numbers.
Least(set) == CHOOSE i \in set : \A j \in set : i <= j

\* C23: every call of unmarshalField in an Unmarshal whose value fails a
\* validator of the field returns the error of the first name, in the order
\* of the tag, that has no validator ('cannot find validator') or whose
\* validator returns false ('invalid value'), leaves the field of the struct
\* as it was, and ends the Unmarshal with that error; a call whose value
\* passes them all returns what the conversion returns.
C23_ValidatorsBeforeConversion ==
    call.op = "Unmarshal" =>
        \A n \in 1..Len(call.calls) :
            LET c == call.calls[n]
                names == c.field.ValidatorNames
                bad == {i \in 1..Len(names) : BadAt(s.rule, names, c.value, i)}
            IN  IF bad # {}
                THEN /\ c.err = IF Unregistered(s.rule, names, Least(bad))
                                THEN UError(ErrNoValidator, <<names[Least(bad)]>>)
                                ELSE UError(ErrInvalidValue, <<c.value, c.field.Name>>)
                     /\ c.new = c.old
                     /\ n = Len(call.calls)
                     /\ call.err = c.err
                     /\ dest[Len(dest)][c.field.Name] = ZeroValue(c.field.Kind)
                ELSE /\ c.err = convert(c.field, c.old, c.value).err
                     /\ c.new = convert(c.field, c.old, c.value).val

\* C23 witness: an Unmarshal ended with 'invalid value' for a value the
\* second validator of the field turned down and the conversion would have
\* stored.
C23_Witness ==
    /\ call.op = "Unmarshal" /\ call.err.msg = ErrInvalidValue
    /\ call.calls # <<>>
    /\ LET c == call.calls[Len(call.calls)]
       IN  /\ Len(c.field.ValidatorNames) = 2
           /\ ~BadAt(s.rule, c.field.ValidatorNames, c.value, 1)
           /\ convert(c.field, c.old, c.value).err.msg = NoErr
           /\ convert(c.field, c.old, c.value).val # c.old

(***************************************************************************)
(* C24.., under SpecScan.                                                  *)
(***************************************************************************)
\* lines without those that start with the comment rune of the rule and,
\* when the rule omits empty lines, without the empty ones.
RECURSIVE Admitted(_, _)
Admitted(rule, lines) ==
    IF lines = <<>> THEN <<>>
    ELSE LET line == Head(lines)
             omitted == \/ rule.omitEmptyLine /\ line = <<>>
                        \/ rule.comment # noRune /\ line # <<>> /\ line[1] = rule.comment
         IN  (IF omitted THEN <<>> ELSE <<line>>) \o Admitted(rule, Tail(lines))

\* C24: a document without quotes scans to one row for each of its lines
\* that neither starts with the comment rune nor, with empty lines omitted,
\* is empty, wherever the other lines stand, the last line included.
C24_LineAdmission ==
    (PlainDoc(doc) /\ s.rule.allowEmptyField
        /\ s.rule.allowEndingLineBreakInLastRecord) =>
        /\ NoScanError
        /\ ScannedToEnd =>
              LET lines == Admitted(s.rule, Lines(doc))
              IN  scanned = [i \in 1..Len(lines) |->
                                LET fields == Split(lines[i], s.rule.separator)
                                IN  [j \in 1..Len(fields) |-> Trimmed(s.rule, fields[j])]]

(***************************************************************************)
(* C25, under SpecScan.                                                    *)
(***************************************************************************)
\* The result of ScanAll on a Scanner over the document with no settings.
ScanWithNoSettings == ScanAll(NewScanner(doc, <<>>).s)

\* C25: with AllowEndingLineBreakInLastRecord(false), a document that scans
\* without error under no settings and does not end with a line break scans
\* without error to the same rows, and one that ends with a line break
\* fails in ScanAll.
C25_EndingLineBreakRejected ==
    (settings = <<AllowEndingLineBreakInLastRecord(FALSE)>>
        /\ doc # <<>> /\ ScanWithNoSettings.err = Nil) =>
        IF EndsWithLineBreak(doc)
        THEN ScanAllFromStart => Failed
        ELSE /\ NoScanError
             /\ ScannedToEnd => scanned = ScanWithNoSettings.rows

(***************************************************************************)
(* C26, under SpecScan.                                                    *)
(***************************************************************************)
\* C26: with AllowEmptyField(false), whatever the other settings, no row
\* scanned from a document without quotes has an empty field.
C26_NoEmptyUnquotedField ==
    (PlainDoc(doc) /\ ~s.rule.allowEmptyField) =>
        \A i \in 1..Len(scanned) :
            \A j \in 1..Len(scanned[i]) : scanned[i][j] # <<>>

(***************************************************************************)
(* C27, under SpecSetting.                                                 *)
(***************************************************************************)
\* The document after its first line, and a Scanner over a document with a
\* rule in place of the settings.
AfterFirstLine(d) ==
    LET i == Least({k \in 1..Len(d) : d[k] = LF})
    IN  SubSeq(d, i + 1, Len(d))

ScannerWithRule(data, rule) == next([newScanner(data, <<>>) EXCEPT !.rule = rule]).s

\* The first line of the document is one record under the settings the
\* Scanner was built with: it is not empty, has no quote, and a line follows.
FirstLineIsRecord ==
    /\ \E k \in 1..Len(doc) : doc[k] = LF
    /\ Lines(doc)[1] # <<>>
    /\ PlainDoc(Lines(doc)[1])

\* The last call is a ScanAll that follows a Setting that follows the first
\* Scan of the Scanner, which returned the first line as a row.
ScanAllAfterSetting ==
    /\ FirstLineIsRecord
    /\ call.op = "ScanAll"
    /\ \E list \in SettingChoices :
          LET first == Scan(NewScanner(doc, settings).s)
          IN  first.err = Nil /\ call.s0 = Setting(first.s, list)

\* C27: whatever the settings of a Setting called after the first Scan, the
\* ScanAll that follows returns what scanning the rest of the document with
\* the rule so set returns: [A],[B] / (a),("b") / (c),(d), scanned with
\* [ ] and after the first row with ( ), gives the rows a,b and c,d.
C27_SettingTakesEffect ==
    /\ ScanAllAfterSetting =>
          LET expected == ScanAll(ScannerWithRule(AfterFirstLine(doc), call.s0.rule))
          IN  /\ (call.err = Nil) <=> (expected.err = Nil)
              /\ call.rows = expected.rows
    /\ (ScanAllAfterSetting /\ doc = DocBracketHeader
           /\ call.s0.rule.prefix = "(" /\ call.s0.rule.suffix = ")") =>
          /\ call.err = Nil
          /\ call.rows = << << <<"a">>, <<"b">> >>, << <<"c">>, <<"d">> >> >>

(***************************************************************************)
(* C28, under SpecScan.                                                    *)
(***************************************************************************)
\* Line k of the document is blank, stands between two other lines, and no
\* line before it has an empty field.
FirstBlankLine(rule, d, k) ==
    /\ 1 < k /\ k < Len(Lines(d))
    /\ Lines(d)[k] = <<>>
    /\ \A i \in 1..(k - 1) : ~LineHasEmptyField(rule, Lines(d)[i])

BoundedKinds == {"int8", "int16", "uint8", "uint16"}

\* C29: every call of unmarshalField in an Unmarshal on a field of a bounded
\* integer kind, with a text that is a number and passes the validators of
\* the field, either stores the number the text stands for or returns 'value
\* is out of range' and leaves the field as it was.
C29_IntegerRangeChecked ==
    call.op = "Unmarshal" =>
        \A n \in 1..Len(call.calls) :
            LET c == call.calls[n]
            IN  (/\ c.field.Kind \in BoundedKinds
                 /\ ParseInt(c.value).err = NoErr
                 /\ c.err.msg \notin {ErrNoValidator, ErrInvalidValue}) =>
                    \/ c.err.msg = NoErr /\ c.new = ParseInt(c.value).val
                    \/ c.err.msg = ErrOutOfRange /\ c.new = c.old

(***************************************************************************)
(* C30, under Spec.                                                        *)
(***************************************************************************)
\* What the last call appended to the content of the Generator.
Appended == SubSeq(g.w, Len(call.g0.w) + 1, Len(g.w))

\* The layout of a field: the prefix of the rule if it has one, the field in
\* double quotes with its double quotes doubled if it must be quoted and as
\* it is otherwise, then the suffix of the rule if it has one.
FieldLayout(rule, field) ==
    (IF rule.prefix = noRune THEN <<>> ELSE <<rule.prefix>>)
        \o (IF NeedsQuote(rule, field) THEN <<DQ>> \o Doubled(field) \o <<DQ>> ELSE field)
        \o (IF rule.suffix = noRune THEN <<>> ELSE <<rule.suffix>>)

\* The layout of a record from field i on: the layout of each field, and the
\* separator after each but the last.
RECURSIVE RecordLayout(_, _, _)
RecordLayout(rule, record, i) ==
    IF i > Len(record) THEN <<>>
    ELSE FieldLayout(rule, record[i])
             \o (IF i < Len(record) THEN <<rule.separator>> ELSE <<>>)
             \o RecordLayout(rule, record, i + 1)

\* The content w after the records from record i on are laid out behind it,
\* each after a line break when there is content before it.
RECURSIVE LaidOut(_, _, _, _)
LaidOut(w, rule, records, i) ==
    IF i > Len(records) THEN w
    ELSE LaidOut(w \o (IF w # <<>> THEN <<LF>> ELSE <<>>)
                   \o RecordLayout(rule, records[i], 1), rule, records, i + 1)

\* C30: an accepted Write or WriteAll appends to the content of the
\* Generator, for every record and after a line break when there is content
\* before it, the layout of the record: for each field in order the prefix,
\* the body, quoted or not, and the suffix, and the separator between two
\* fields and not after the last.
C30_FieldLayout ==
    /\ (Accepted /\ call.op = "Write") =>
          /\ Len(g.w) >= Len(call.g0.w)
          /\ SubSeq(g.w, 1, Len(call.g0.w)) = call.g0.w
          /\ Appended = (IF call.g0.w # <<>> THEN <<LF>> ELSE <<>>)
                            \o RecordLayout(g.rule, call.records[1], 1)
    /\ (Accepted /\ call.op = "WriteAll") =>
          g.w = LaidOut(call.g0.w, g.rule, call.records, 1)

\* C30 witness: with ( and ) as prefix and suffix, a record of two fields,
\* the first of which is quoted, has been written.
C30_Witness ==
    /\ Accepted /\ call.op = "Write"
    /\ g.rule.prefix = "(" /\ g.rule.suffix = ")"
    /\ Len(call.records[1]) = 2
    /\ NeedsQuote(g.rule, call.records[1][1])
    /\ Appended = <<"(", DQ>> \o Doubled(call.records[1][1]) \o <<DQ, ")", ",", "(">>
                      \o call.records[1][2] \o <<")">>

(***************************************************************************)
(* C31.., under SpecScan.                                                  *)
(***************************************************************************)
\* The document starts with a field in quotes q, without a line break or a
\* q between them, that ends before rune k, and rune k is no q.
QuotedFieldBefore(d, q, k) ==
    /\ 3 <= k /\ k <= Len(d)
    /\ d[1] = q /\ d[k - 1] = q /\ d[k] # q
    /\ \A i \in 2..(k - 2) : d[i] \notin {q, LF}

\* The rune may follow a completed field: it is the separator or a line
\* break, or a space that the rule omits after a field.
MayFollowField(rule, c) ==
    \/ c \in {rule.separator, LF}
    \/ rule.omitTrailingSpace /\ c \in SpaceRunes

\* C31: when the document starts with a quoted field and the rune after its
\* closing quote is neither the separator nor a line break (nor an omitted
\* space), the first scan fails at that rune with 'expect separator'; and
\* with Separator('|'), a document without quotes scans to its lines split
\* at | only, a comma being text of a field.
C31_SeparatorHandling ==
    /\ \A q \in {DQ, SQ} : \A k \in 1..Len(doc) :
          (/\ isQuote(s, q) /\ QuotedFieldBefore(doc, q, k)
           /\ ~MayFollowField(s.rule, doc[k])
           /\ FirstCall) =>
              call.err = [msg |-> ErrExpectSeparator, lineNo |-> 1, pos |-> k - 1]
    /\ (settings = <<Separator("|")>> /\ PlainDoc(doc)) =>
          /\ NoScanError
          /\ ScannedToEnd => scanned = ExpectedRows(s.rule, doc)
    /\ (settings = <<Separator("|")>> /\ doc = DocCustomSeparator) =>
          /\ NoScanError
          /\ ScannedToEnd =>
                scanned = << << <<"a", ",", "a">>, <<"a", "|", "a">>, <<"a">> >>,
                             << <<"a">>, <<"a">> >> >>

\* C31 witness: the first scan of "a"a has failed at its last rune.
C31_Witness ==
    /\ doc = DocTextAfterQuote /\ settings = <<>> /\ FirstCall
    /\ call.err = [msg |-> ErrExpectSeparator, lineNo |-> 1, pos |-> 3]

\* What the Scanner had before it at the start of the last call: the rest of
\* its line and what it had not read yet.
Ahead(s0) == SubSeq(s0.line, s0.pos + 1, Len(s0.line)) \o s0.f

\* The number of separators of the record that text starts with, from rune i
\* on, that stand outside quoted fields, added to n.  The mode is "start"
\* at the start of a field, "plain" in a field without quotes, "quoted" in a
\* field opened by the quote q and "closed" behind its closing quote; the
\* record ends at the first line break outside a quoted field.
RECURSIVE SeparatorsOutside(_, _, _, _, _, _)
SeparatorsOutside(rule, text, i, mode, q, n) ==
    IF i > Len(text) THEN n
    ELSE LET c == text[i]
         IN  IF mode = "quoted"
             THEN IF c # q THEN SeparatorsOutside(rule, text, i + 1, "quoted", q, n)
                  ELSE IF i < Len(text) /\ text[i + 1] = q
                  THEN SeparatorsOutside(rule, text, i + 2, "quoted", q, n)
                  ELSE SeparatorsOutside(rule, text, i + 1, "closed", q, n)
             ELSE IF c = LF THEN n
             ELSE IF c = rule.separator
             THEN SeparatorsOutside(rule, text, i + 1, "start", q, n + 1)
             ELSE IF mode = "start" /\ (c = DQ \/ (rule.allowSingleQuote /\ c = SQ))
             THEN SeparatorsOutside(rule, text, i + 1, "quoted", c, n)
             ELSE IF mode = "start" /\ rule.omitLeadingSpace /\ c \in SpaceRunes
             THEN SeparatorsOutside(rule, text, i + 1, "start", q, n)
             ELSE SeparatorsOutside(rule, text, i + 1,
                                    IF mode = "closed" THEN "closed" ELSE "plain", q, n)

\* The record that text starts with, when it has no quote: text up to its
\* first line break.
FirstLine(text) == Lines(text \o <<LF>>)[1]

\* C32: every row a Scan returns has one field more than the record it was
\* scanned from has separators outside quoted fields, so at least one; and
\* a record without quotes gives its fields in their order.
C32_FieldCount ==
    (call.op = "Scan" /\ call.rows # <<>>) =>
        LET row == call.rows[1]
            text == Ahead(call.s0)
        IN  /\ Len(row) >= 1
            /\ Len(row) = 1 + SeparatorsOutside(call.s0.rule, text, 1, "start", noRune, 0)
            /\ PlainDoc(FirstLine(text)) =>
                  row = [j \in 1..Len(Split(FirstLine(text), call.s0.rule.separator)) |->
                            Trimmed(call.s0.rule,
                                    Split(FirstLine(text), call.s0.rule.separator)[j])]

\* C33: the Scanner that NewScanner returned has, after every call, a line
\* number of 1 or more and a position of 0 or more; before the end of the
\* input its position is inside its line and its rune is the rune of the
\* line there; at the end of the input its rune is the no-rune, and a call
\* made at the end of the input leaves it at the end of the input.
C33_CursorInvariant ==
    live =>
        /\ s.lineNo >= 1
        /\ s.pos >= 0
        /\ ~s.eof => (s.pos < Len(s.line) /\ s.c = s.line[s.pos + 1])
        /\ s.eof => s.c = noRune
        /\ (call.op \in {"Scan", "ScanAll"} /\ call.s0.eof) => s.eof

\* C33 witness: a Scan has left the Scanner inside the second line of the
\* document, and a later call was made at its end.
C33_Witness ==
    /\ live /\ call.op = "Scan"
    /\ \/ ~s.eof /\ s.lineNo = 2 /\ s.pos > 0
       \/ call.s0.eof /\ call.s0.lineNo >= 2

\* C34: a Scan that returns io.EOF and a ScanAll that returns no error leave
\* the Scanner at the end of the input; a Scan called there returns a nil
\* row with io.EOF, a ScanAll called there returns an empty list that is
\* not nil with a nil error, and neither changes the Scanner.
C34_EndOfInputStable ==
    (live /\ call.op \in {"Scan", "ScanAll"}) =>
        /\ (call.op = "Scan" /\ call.err = IoEOF) => s.eof
        /\ (call.op = "ScanAll" /\ call.err = Nil) => s.eof
        /\ call.s0.eof =>
              /\ s = call.s0
              /\ call.rows = <<>>
              /\ call.op = "Scan" => (call.isNil /\ call.err = IoEOF)
              /\ call.op = "ScanAll" => (~call.isNil /\ call.err = Nil)

\* C34 witness: after rows were scanned up to the end of the input, a Scan
\* was called there.
C34_Witness ==
    /\ live /\ call.op = "Scan" /\ call.s0.eof
    /\ scanned # <<>>
    /\ call.err = IoEOF

(***************************************************************************)
(* C35, under SpecIso.                                                     *)
(***************************************************************************)
\* The settings of a list that are no validators, and the validators that
\* the settings of a list add to the map m, in order.
PlainSettings(list) == SelectSeq(list, LAMBDA x : x.name # "Validator")

RECURSIVE OwnValidators(_, _)
OwnValidators(list, m) ==
    IF list = <<>> THEN m
    ELSE LET x == Head(list)
         IN  OwnValidators(Tail(list),
                 IF x.name # "Validator" THEN m
                 ELSE [k \in DOMAIN m \cup {x.key} |-> IF k = x.key THEN x.fn ELSE m[k]])

\* The validators map of a rule: the nil map and the empty one are <<>>.
ValidatorsOf(p, r) == IF r.validators = 0 THEN <<>> ELSE p.heap[r.validators]

\* C35: whatever instances are built and whatever Setting is called, the
\* default rule of the package is as it was at the start, the rule and the
\* validators of every instance are those its own settings make of the
\* defaults, no two instances have the same validators map, and an instance
\* built without settings has the defaults.
C35_InstanceIsolation ==
    /\ pkg.defaultRule = NewPackage.defaultRule
    /\ \A i \in 1..Len(pkg.instances) :
          LET inst == pkg.instances[i]
          IN  /\ inst.rule.rule = ApplySettings(PlainSettings(inst.own), defaultRule)
              /\ ValidatorsOf(pkg, inst.rule) = OwnValidators(inst.own, <<>>)
              /\ inst.own = <<>> => inst.rule = NewPackage.defaultRule
              /\ \A j \in 1..Len(pkg.instances) :
                    (i # j /\ inst.rule.validators # 0) =>
                        inst.rule.validators # pkg.instances[j].rule.validators

\* C35 witness: after a Scanner and a Generator were built with validators
\* and Setting was called on the Scanner, a Scanner was built without
\* settings.
C35_Witness ==
    /\ Len(pkg.instances) = 3
    /\ call.op = "NewScanner" /\ call.settings = <<>>
    /\ pkg.instances[1].kind = "Scanner" /\ pkg.instances[2].kind = "Generator"
    /\ Len(pkg.instances[1].own) = 2
    /\ pkg.instances[1].rule.validators # 0 /\ pkg.instances[2].rule.validators # 0
    /\ pkg.instances[3].rule = NewPackage.defaultRule

(***************************************************************************)
(* C36, under SpecStep.                                                    *)
(***************************************************************************)
\* What the Scanner has before it: the runes from its position on, those
\* not read yet, and the end of the input.
Measure(sc) == IF sc.eof THEN 0 ELSE Len(sc.line) - sc.pos + Len(sc.f) + 1

\* The places in the code, in the order the code passes through them
\* between two calls of next.
Rank(pc, sc) ==
    CASE pc = "ScanAll" -> IF sc.eof THEN 1 ELSE 10
      [] pc = "leadSpace" -> 9
      [] pc = "prefix" -> 8
      [] pc = "body" -> 7
      [] pc \in {"escaped", "nonEscaped"} -> 6
      [] pc = "suffix" -> 5
      [] pc = "trailSpace" -> 4
      [] pc = "fieldDone" -> 3
      [] pc = "endRecord" -> 2
      [] OTHER -> 0

Variant(c, sc) == 16 * Measure(sc) + Rank(c.pc, sc)

\* The step is a pass through a loop: of scanSPACE, scanEscaped or
\* scanNonEscaped, of scanRecord, or of ScanAll.
LoopPass ==
    \/ call.pc \in {"leadSpace", "escaped", "nonEscaped", "trailSpace"}
          /\ call'.pc = call.pc
    \/ call.pc = "fieldDone" /\ call'.pc = "leadSpace"
    \/ call.pc = "endRecord" /\ call'.pc = "ScanAll"

\* The step moves the position on in the line, goes to a later line, or
\* reaches the end of the input.
Progress ==
    \/ s'.lineNo = s.lineNo /\ s'.pos > s.pos
    \/ s'.lineNo > s.lineNo
    \/ ~s.eof /\ s'.eof

\* C36: ScanAll on every document, with every configuration, comes to its
\* return, with rows or with an error; every step of it brings the Scanner
\* nearer to the end of the input or the code nearer to the next call of
\* next, and every pass through a loop moves the position on, goes to a
\* later line or reaches the end of the input.
C36_Termination ==
    /\ <>(call.pc \in {"done", "failed"})
    /\ [][Variant(call', s') < Variant(call, s)]_vars
    /\ [][LoopPass => Progress]_vars

\* C36 witness: ScanAll has returned two rows, one of them with a quoted
\* field on two lines.
C36_Witness ==
    /\ At("done") /\ Len(call.rows) = 2
    /\ \E i \in 1..2 : \E j \in 1..Len(call.rows[i]) :
          \E k \in 1..Len(call.rows[i][j]) : call.rows[i][j][k] = LF

\* The steps of ScanAll return what ScanAll returns.
StepsAgreeWithScanAll ==
    LET whole == ScanAll(NewScanner(doc, settings).s)
    IN  /\ At("done") => (whole.err = Nil /\ whole.rows = call.rows /\ whole.s = s)
        /\ (At("failed") /\ live) => (whole.err = call.err /\ whole.s = s)

(***************************************************************************)
(* C37, under SpecScan.                                                    *)
(***************************************************************************)
\* The physical line L of a document, with its line break when it has one.
LineWithBreak(d, L) ==
    IF L < Len(Lines(d)) \/ d[Len(d)] = LF
    THEN Lines(d)[L] \o <<LF>>
    ELSE Lines(d)[L]

\* The error of a Scan or ScanAll, as Scanner.error wraps it.
ScanFailed ==
    /\ live
    /\ call.op \in {"Scan", "ScanAll"}
    /\ call.err \notin {Nil, IoEOF}

\* C37: every error of Scan and ScanAll reports a line number between 1 and
\* the number of physical lines of the input, and a position smaller than
\* the number of runes of that line.
C37_ErrorInsideInput ==
    ScanFailed =>
        /\ call.err.lineNo >= 1
        /\ call.err.lineNo <= Len(Lines(doc))
        /\ call.err.pos < Len(LineWithBreak(doc, call.err.lineNo))

\* An error reported before the end of the input names the rune at which
\* the scanning stopped.
ErrorBeforeEndInsideInput ==
    (ScanFailed /\ ~s.eof) =>
        /\ call.err.lineNo \in 1..Len(Lines(doc))
        /\ call.err.pos < Len(LineWithBreak(doc, call.err.lineNo))
        /\ LineWithBreak(doc, call.err.lineNo)[call.err.pos + 1] = s.c

\* An error reported at the end of the input names the line after the last
\* one, at position 0.
ErrorAtEndAfterInput ==
    (ScanFailed /\ s.eof) =>
        /\ call.err.lineNo > Len(Lines(doc))
        /\ call.err.pos = 0

(***************************************************************************)
(* C38, under SpecUnmarshal.                                               *)
(***************************************************************************)
\* The header and the rows that unmarshal gets from the Scanner.
ScannedForUnmarshal == H_Scan(H_NewScanner(doc, Append(settings, Header(TRUE))))

\* C38: Unmarshal looks up header[i] only for i smaller than the length of
\* the header, so it returns a result or an error and does not panic.
C38_HeaderLookupInBounds ==
    call.op = "Unmarshal" => call.err.msg # ErrIndex

\* Unmarshal panics only on a document with a row longer than its header,
\* when no field before the end of the header has failed.
PanicOnlyOnLongRow ==
    (call.op = "Unmarshal" /\ call.err.msg = ErrIndex) =>
        /\ ScannedForUnmarshal.err.msg = NoErr
        /\ \E i \in 1..Len(ScannedForUnmarshal.rows) :
               Len(ScannedForUnmarshal.rows[i]) > Len(ScannedForUnmarshal.header)

(***************************************************************************)
(* C39, under Spec.                                                        *)
(***************************************************************************)
\* C39: a Finish called on a finished Generator returns the document that
\* the first Finish returned.
C39_FinishRepeatable ==
    (call.op = "Finish" /\ call.g0.finished) => call.data = doc

\* A Finish called on a finished Generator returns no data and no error,
\* and leaves the Generator as it was.
LaterFinishEmpty ==
    (call.op = "Finish" /\ call.g0.finished) =>
        /\ call.data = <<>>
        /\ call.err = Nil
        /\ g = call.g0

====
